---- MODULE Spec2Model ----
(***************************************************************************)
(* State machine of the CalorieWise client-side orchestrator (src/App.tsx) *)
(* and its persistence gateway (services/firebaseService).                 *)
(*                                                                         *)
(* Conventions                                                             *)
(*   - a nullable value is NULL (the empty tuple) or Some(v) = <<v>>;      *)
(*   - a calendar-date string "YYYY-MM-DD" is a day number, an ISO         *)
(*     timestamp string is the record of its day and its time of day;      *)
(*   - a text is a sequence of string fragments (the characters of a user  *)
(*     message, the deltas of a response);                                 *)
(*   - a handler that awaits is split at its awaits; the values its        *)
(*     closure captured at call time are kept in the record of the         *)
(*     operation in flight.                                                *)
(***************************************************************************)
EXTENDS Integers, Sequences, FiniteSets, TLC

VARIABLES
    today,                \* current calendar day (UTC), new Date()
    now,                  \* Date.now() as used for generated identifiers
    isAuthLoading,        \* App.tsx:21
    firebaseUser,         \* App.tsx:20, NULL or Some(uid)
    isGuest,              \* App.tsx:23
    isUserDataLoading,    \* App.tsx:22
    guestDataRef,         \* App.tsx:24, NULL or Some(UserData)
    userProfile,          \* App.tsx:27
    dailyLogs,            \* App.tsx:28
    workoutPlan,          \* App.tsx:29
    weightLog,            \* App.tsx:30
    chatSessions,         \* App.tsx:31
    activeChatSessionId,  \* App.tsx:32
    isGeneratingPlan,     \* App.tsx:35
    dashboardError,       \* App.tsx:38
    isAiReplying,         \* App.tsx:40
    remote,               \* the Firestore collection 'users': uid -> document
    saves,                \* setDoc calls in flight, in issue order
    signInPending,        \* a signInWithGoogle popup is open
    authCb,               \* the onAuthStateChanged callback in flight
    createOp,             \* handleProfileCreate in flight
    regenOp,              \* handleRegeneratePlan in flight
    sendOp,               \* handleSendMessage in flight
    lastOp,               \* history: the handler step taken last, its inputs
    isOpen,               \* isOpen of each component that calls useBackHandler
    historyEntries,       \* window.history: state.modalOpen of each entry
    historyIndex,         \* position of the current entry in historyEntries
    popstateListeners,    \* components whose handlePopState is registered
    pendingTraversals     \* history.back() calls not yet carried out

vars == <<today, now, isAuthLoading, firebaseUser, isGuest, isUserDataLoading,
          guestDataRef, userProfile, dailyLogs, workoutPlan, weightLog,
          chatSessions, activeChatSessionId, isGeneratingPlan, dashboardError,
          isAiReplying, remote, saves, signInPending, authCb, createOp,
          regenOp, sendOp, lastOp, isOpen, historyEntries, historyIndex,
          popstateListeners, pendingTraversals>>

snapshotVars == <<userProfile, dailyLogs, workoutPlan, weightLog, chatSessions,
                  activeChatSessionId>>
authVars == <<isAuthLoading, firebaseUser, isGuest, isUserDataLoading,
              guestDataRef, signInPending, authCb>>
flagVars == <<isGeneratingPlan, dashboardError, isAiReplying>>
opVars == <<createOp, regenOp, sendOp>>
clockVars == <<today, now>>
backVars == <<isOpen, historyEntries, historyIndex, popstateListeners,
              pendingTraversals>>

----------------------------------------------------------------------------
(* Bounds of the model *)

MaxDay == 2              \* calendar days 1..MaxDay
MaxMeals == 2            \* meals logged in one snapshot
MaxWeightEntries == 2    \* entries of one weight history
MaxClock == 3            \* identifiers generated in one run (Date.now())
MaxChunks == 2           \* chunks of one stream
MaxSaves == 2
MaxDetails == 3            \* setDoc calls in flight

(* Program constants *)

DayMs == 86400000        \* milliseconds of a day (Date arithmetic)
TitleLimit == 30         \* App.tsx:334

----------------------------------------------------------------------------
(* Values *)

NULL == <<>>
Some(v) == <<v>>
Val(o) == o[1]

Users == {"u1", "u2"}
Days == 1..MaxDay
Weights == {70, 72}
Plans == {"planA", "planB", "planC"}
ProfileNames == {"ann"}
RegOffsets == {0, 1000}   \* time of day of a registration, in ms

Fields == {"userProfile", "dailyLogs", "workoutPlan", "weightLog",
           "chatSessions", "activeChatSessionId"}

ZeroNutrition == [calories |-> 0, protein |-> 0, carbs |-> 0, fat |-> 0]

MealChoices ==
    { [id |-> "m1",
       totalNutrition |-> [calories |-> 100, protein |-> 10, carbs |-> 20, fat |-> 5]],
      [id |-> "m2",
       totalNutrition |-> [calories |-> 250, protein |-> 7, carbs |-> 30, fat |-> 9]] }

Idle == [pc |-> "idle"]

----------------------------------------------------------------------------
(* Pure helpers *)

RECURSIVE SumNutrition(_)
\* meals.reduce((acc, m) => acc + m.totalNutrition, zero), App.tsx:214-219
SumNutrition(meals) ==
    IF meals = <<>> THEN ZeroNutrition
    ELSE LET acc == SumNutrition(SubSeq(meals, 1, Len(meals) - 1))
             m == meals[Len(meals)]
         IN [calories |-> acc.calories + m.totalNutrition.calories,
             protein |-> acc.protein + m.totalNutrition.protein,
             carbs |-> acc.carbs + m.totalNutrition.carbs,
             fat |-> acc.fat + m.totalNutrition.fat]

\* logs.findIndex(log => log.date === dateStr); 0 stands for -1
FindLogIndex(logs, dateStr) ==
    IF \E i \in 1..Len(logs) : logs[i].date = dateStr
    THEN CHOOSE i \in 1..Len(logs) :
             /\ logs[i].date = dateStr
             /\ \A j \in 1..(i - 1) : logs[j].date # dateStr
    ELSE 0

\* an ISO timestamp string: the calendar day and the time of that day
ISO(day, ms) == [day |-> day, ms |-> ms]

\* new Date(dateStr).toISOString(): midnight UTC of the day
DateToISO(dateStr) == ISO(dateStr, 0)

\* new Date(iso).getTime()
GetTime(iso) == iso.day * DayMs + iso.ms

\* iso.split('T')[0]
ISODay(iso) == iso.day

\* one step of Array.prototype.sort (stable): e goes after every element
\* that does not compare greater
InsertByDate(sorted, e) ==
    LET k == Cardinality({i \in 1..Len(sorted) :
                             GetTime(sorted[i].date) - GetTime(e.date) <= 0})
    IN SubSeq(sorted, 1, k) \o <<e>> \o SubSeq(sorted, k + 1, Len(sorted))

RECURSIVE SortByDate(_)
\* arr.sort((a, b) => new Date(a.date).getTime() - new Date(b.date).getTime())
SortByDate(arr) ==
    IF arr = <<>> THEN <<>>
    ELSE InsertByDate(SortByDate(SubSeq(arr, 1, Len(arr) - 1)), arr[Len(arr)])

\* addMeal without the recomputation of lines 214-219
AddMealLogs_KeepTotal(logs, meal, dateStr) ==
    LET logIndex == FindLogIndex(logs, dateStr)
    IN IF logIndex > 0
       THEN [logs EXCEPT ![logIndex].meals = Append(@, meal)]
       ELSE Append(logs, [date |-> dateStr, meals |-> <<meal>>,
                          totalNutrition |-> meal.totalNutrition])

\* the new dailyLogs computed by addMeal, App.tsx:208-228
AddMealLogs(logs, meal, dateStr) ==
    LET logIndex == FindLogIndex(logs, dateStr)
    IN IF logIndex > 0
       THEN LET meals2 == Append(logs[logIndex].meals, meal)
                updatedLog == [meals |-> meals2,
                               totalNutrition |-> SumNutrition(meals2)]
                              @@ logs[logIndex]
            IN [logs EXCEPT ![logIndex] = updatedLog]
       ELSE Append(logs, [date |-> dateStr, meals |-> <<meal>>,
                          totalNutrition |-> meal.totalNutrition])

\* addWeightEntry without the sort of line 236
AddWeightLog_NoSort(wlog, weight, dateStr) ==
    Append(wlog, [date |-> DateToISO(dateStr), weight |-> weight])

\* the new weightLog computed by addWeightEntry, App.tsx:235-236
AddWeightLog(wlog, weight, dateStr) ==
    SortByDate(Append(wlog, [date |-> DateToISO(dateStr), weight |-> weight]))

\* a profile that takes the weight of every entry, whatever its date
AddWeightProfile_AnyDate(profile, weight, dateStr, todayStr) ==
    IF profile # NULL
    THEN Some([Val(profile) EXCEPT !.weight = weight])
    ELSE profile

\* the profile saved by addWeightEntry, App.tsx:239-246
AddWeightProfile(profile, weight, dateStr, todayStr) ==
    IF profile # NULL /\ dateStr = todayStr
    THEN Some([Val(profile) EXCEPT !.weight = weight])
    ELSE profile

\* the new dailyLogs computed by addWeightEntry, App.tsx:248-260
AddWeightLogs(logs, weight, dateStr) ==
    LET logIndex == FindLogIndex(logs, dateStr)
    IN IF logIndex > 0
       THEN [logs EXCEPT ![logIndex] = [weight |-> weight] @@ logs[logIndex]]
       ELSE Append(logs, [date |-> dateStr, meals |-> <<>>,
                          totalNutrition |-> ZeroNutrition, weight |-> weight])

----------------------------------------------------------------------------
(* Persistence gateway: services/firebaseService *)

\* removeUndefinedValues on the shapes of UserData.  The only property the
\* orchestrator ever sets to undefined is the grounding of a chat message
\* (App.tsx:358); it is the empty tuple here, and a key that is removed is a
\* field the record does not have.
UNDEFINED == <<>>

SanitizeMessage(msg) ==
    IF "grounding" \in DOMAIN msg /\ msg.grounding = UNDEFINED
    THEN [k \in (DOMAIN msg) \ {"grounding"} |-> msg[k]]
    ELSE msg

SanitizeSession(session) ==
    [session EXCEPT !.history =
        [i \in 1..Len(session.history) |-> SanitizeMessage(session.history[i])]]

removeUndefinedValues(data) ==
    [k \in DOMAIN data |->
        IF k = "chatSessions"
        THEN [i \in 1..Len(data[k]) |-> SanitizeSession(data[k][i])]
        ELSE data[k]]

NoDoc == [exists |-> FALSE, data |-> <<>>]

\* setDoc(ref, payload) without the merge option: the payload becomes the
\* document
SetDocMerge_Replace(doc, payload) ==
    [exists |-> TRUE, data |-> payload]

\* setDoc(ref, payload, { merge: true }): the fields of the payload replace
\* the stored ones, the others stay.  The maps a UserData holds (profile,
\* plan) always carry the same keys and its lists are written whole, so the
\* merge of a field is its replacement.
SetDocMerge(doc, payload) ==
    [exists |-> TRUE, data |-> payload @@ doc.data]

\* getUserData on a getDoc that succeeds, part_007:66-71
DocData(doc) == IF doc.exists THEN Some(doc.data) ELSE NULL

\* a request that carries the profile of the data only
SaveRequest_ProfileOnly(uid, data, by) ==
    [uid |-> uid,
     data |-> [k \in (DOMAIN data) \cap {"userProfile"} |-> data[k]],
     by |-> by]

\* the request saveUserData puts in flight, part_007:110-114
SaveRequest(uid, data, by) ==
    [uid |-> uid, data |-> removeUndefinedValues(data), by |-> by]

\* a saveData without the firebaseUser test: a guest's data goes to a
\* document of its own
SaveData_NoUserTest(queue, user, data, by) ==
    Append(queue, SaveRequest(IF user # NULL THEN Val(user) ELSE "guest", data, by))

\* saveData, App.tsx:141-145, as closed over the firebaseUser value user
SaveData(queue, user, data, by) ==
    IF user # NULL THEN Append(queue, SaveRequest(Val(user), data, by))
    ELSE queue

CanSave(user) == user = NULL \/ Len(saves) < MaxSaves

\* what renderContent shows, App.tsx:399-468
Screen ==
    IF isAuthLoading THEN "loading"
    ELSE IF firebaseUser = NULL /\ ~isGuest THEN "login"
    ELSE IF firebaseUser # NULL /\ isUserDataLoading THEN "loader"
    ELSE IF userProfile = NULL THEN "setup"
    ELSE "dashboard"

UserData(p, logs, plan, wlog, sessions, active) ==
    [userProfile |-> p, dailyLogs |-> logs, workoutPlan |-> plan,
     weightLog |-> wlog, chatSessions |-> sessions,
     activeChatSessionId |-> active]

Snapshot ==
    UserData(userProfile, dailyLogs, workoutPlan, weightLog, chatSessions,
             activeChatSessionId)

EmptyData == UserData(NULL, <<>>, NULL, <<>>, <<>>, NULL)

\* the six setters called with the fields of one UserData value
SetSnapshot(d) ==
    /\ userProfile' = d.userProfile
    /\ dailyLogs' = d.dailyLogs
    /\ workoutPlan' = d.workoutPlan
    /\ weightLog' = d.weightLog
    /\ chatSessions' = d.chatSessions
    /\ activeChatSessionId' = d.activeChatSessionId

----------------------------------------------------------------------------
(* Initial state: the App component right after it is mounted *)

\* a document left in the store by an earlier session of user "u2"
\* the components that call useBackHandler together: the meal logger
\* (Chatbox.tsx:260) and the camera modal inside it (MealLogger.tsx:71)
Components == {"mealLogger", "camera"}

\* the page was reached from another one: its entry is the second of the
\* session history and carries no state
BaseIndex == 2

InitBack ==
    /\ isOpen = [c \in Components |-> FALSE]
    /\ historyEntries = <<FALSE, FALSE>>
    /\ historyIndex = BaseIndex
    /\ popstateListeners = {}
    /\ pendingTraversals = 0

ExistingProfile == [name |-> "bob", weight |-> 70, registrationDate |-> ISO(1, 0)]

ExistingDoc ==
    [exists |-> TRUE,
     data |-> UserData(Some(ExistingProfile), <<>>, Some("planA"),
                       <<[date |-> ISO(1, 0), weight |-> 70]>>, <<>>, NULL)]

Init ==
    /\ today = 1
    /\ now = 1
    /\ isAuthLoading = TRUE
    /\ firebaseUser = NULL
    /\ isGuest = FALSE
    /\ isUserDataLoading = FALSE
    /\ guestDataRef = NULL
    /\ userProfile = NULL
    /\ dailyLogs = <<>>
    /\ workoutPlan = NULL
    /\ weightLog = <<>>
    /\ chatSessions = <<>>
    /\ activeChatSessionId = NULL
    /\ isGeneratingPlan = FALSE
    /\ dashboardError = NULL
    /\ isAiReplying = FALSE
    /\ remote = [u \in Users |-> IF u = "u2" THEN ExistingDoc ELSE NoDoc]
    /\ saves = <<>>
    /\ signInPending = FALSE
    /\ authCb = Idle
    /\ createOp = Idle
    /\ regenOp = Idle
    /\ sendOp = Idle
    /\ lastOp = [op |-> "init"]
    /\ InitBack

----------------------------------------------------------------------------
(* The clock *)

\* midnight UTC passes
AdvanceDay ==
    /\ today < MaxDay
    /\ today' = today + 1
    /\ lastOp' = [op |-> "advanceDay"]
    /\ UNCHANGED <<backVars, now, authVars, snapshotVars, flagVars, remote, saves, opVars>>

----------------------------------------------------------------------------
(* Guest entry, App.tsx:44-46 *)

handleContinueAsGuest ==
    /\ Screen = "login"
    /\ isGuest' = TRUE
    /\ lastOp' = [op |-> "continueAsGuest"]
    /\ UNCHANGED <<backVars, clockVars, isAuthLoading, firebaseUser, isUserDataLoading,
                   guestDataRef, signInPending, authCb, snapshotVars, flagVars,
                   remote, saves, opVars>>

----------------------------------------------------------------------------
(* handleProfileCreate, App.tsx:153-189 *)

\* the profiles ProfileSetup.handleSubmit can pass, ProfileSetup.tsx:115-118
NewProfiles ==
    {[name |-> n, weight |-> w, registrationDate |-> ISO(today, ms)] :
        n \in ProfileNames, w \in Weights, ms \in RegOffsets}

\* userDataToSave, App.tsx:157-166
InitialUserData(profile, plan) ==
    UserData(Some(profile), <<>>, Some(plan),
             <<[date |-> profile.registrationDate, weight |-> profile.weight]>>,
             <<>>, NULL)

\* lines 153-156: up to the await of generateWorkoutPlan
CreateStart(profile) ==
    /\ Screen = "setup"
    /\ ~isGeneratingPlan
    /\ createOp = Idle
    /\ isGeneratingPlan' = TRUE
    /\ createOp' = [pc |-> "generating", profile |-> profile, user |-> firebaseUser]
    /\ lastOp' = [op |-> "createStart"]
    /\ UNCHANGED <<backVars, clockVars, authVars, snapshotVars, dashboardError,
                   isAiReplying, remote, saves, regenOp, sendOp>>

\* generateWorkoutPlan rejects: catch rethrows, finally clears the flag
CreatePlanFailed ==
    /\ createOp.pc = "generating"
    /\ isGeneratingPlan' = FALSE
    /\ createOp' = Idle
    /\ lastOp' = [op |-> "createFailed", cause |-> "plan"]
    /\ UNCHANGED <<backVars, clockVars, authVars, snapshotVars, dashboardError,
                   isAiReplying, remote, saves, regenOp, sendOp>>

\* generateWorkoutPlan resolves for a guest: lines 157-180 and finally
CreatePlanReturnGuest(plan) ==
    /\ createOp.pc = "generating"
    /\ createOp.user = NULL
    /\ SetSnapshot(InitialUserData(createOp.profile, plan))
    /\ isGeneratingPlan' = FALSE
    /\ createOp' = Idle
    /\ lastOp' = [op |-> "createDone", saved |-> "none"]
    /\ UNCHANGED <<backVars, clockVars, authVars, dashboardError, isAiReplying, remote,
                   saves, regenOp, sendOp>>

\* generateWorkoutPlan resolves for a signed-in user: lines 157-171, up to
\* the await of saveData
CreatePlanReturnUser(plan) ==
    /\ createOp.pc = "generating"
    /\ createOp.user # NULL
    /\ Len(saves) < MaxSaves
    /\ saves' = SaveData(saves, createOp.user,
                         InitialUserData(createOp.profile, plan), "create")
    /\ createOp' = [createOp EXCEPT !.pc = "saving"] @@ [plan |-> plan]
    /\ lastOp' = [op |-> "createSave"]
    /\ UNCHANGED <<backVars, clockVars, authVars, snapshotVars, flagVars, remote,
                   regenOp, sendOp>>

----------------------------------------------------------------------------
(* addMeal, App.tsx:206-231 *)

MealCount(logs) ==
    LET RECURSIVE Count(_)
        Count(i) == IF i = 0 THEN 0 ELSE Len(logs[i].meals) + Count(i - 1)
    IN Count(Len(logs))

addMeal(meal, date) ==
    /\ Screen = "dashboard"
    /\ date <= today
    /\ MealCount(dailyLogs) < MaxMeals
    /\ CanSave(firebaseUser)
    /\ LET newLogs == AddMealLogs(dailyLogs, meal, date)
       IN /\ dailyLogs' = newLogs
          /\ saves' = SaveData(saves, firebaseUser, [dailyLogs |-> newLogs], "none")
    /\ lastOp' = [op |-> "addMeal", meal |-> meal, date |-> date]
    /\ UNCHANGED <<backVars, clockVars, authVars, userProfile, workoutPlan, weightLog,
                   chatSessions, activeChatSessionId, flagVars, remote, opVars>>

----------------------------------------------------------------------------
(* addWeightEntry, App.tsx:233-264 *)

addWeightEntry(weight, date) ==
    /\ Screen = "dashboard"
    /\ date <= today
    /\ Len(weightLog) < MaxWeightEntries
    /\ CanSave(firebaseUser)
    /\ LET newWeightLog == AddWeightLog(weightLog, weight, date)
           updatedProfile == AddWeightProfile(userProfile, weight, date, today)
           newLogs == AddWeightLogs(dailyLogs, weight, date)
       IN /\ weightLog' = newWeightLog
          /\ userProfile' = updatedProfile
          /\ dailyLogs' = newLogs
          /\ saves' = SaveData(saves, firebaseUser,
                               [weightLog |-> newWeightLog,
                                userProfile |-> updatedProfile,
                                dailyLogs |-> newLogs], "none")
    /\ lastOp' = [op |-> "addWeightEntry", weight |-> weight, date |-> date]
    /\ UNCHANGED <<backVars, clockVars, authVars, workoutPlan, chatSessions,
                   activeChatSessionId, flagVars, remote, opVars>>

----------------------------------------------------------------------------
(* Sign-in and the onAuthStateChanged callback, App.tsx:48-64 and 72-128 *)

\* handleSignInAttempt: captures the guest data, opens the popup
handleSignInAttempt ==
    /\ Screen = "login" \/ (Screen = "dashboard" /\ isGuest)
    /\ ~signInPending
    /\ authCb = Idle
    /\ guestDataRef' = IF isGuest /\ userProfile # NULL THEN Some(Snapshot)
                       ELSE NULL
    /\ signInPending' = TRUE
    /\ lastOp' = [op |-> "signInAttempt"]
    /\ UNCHANGED <<backVars, clockVars, isAuthLoading, firebaseUser, isGuest,
                   isUserDataLoading, authCb, snapshotVars, flagVars, remote,
                   saves, opVars>>

\* signInWithPopup rejects (popup closed, provider error): Login.tsx:35-45
SignInFailed ==
    /\ signInPending
    /\ signInPending' = FALSE
    /\ lastOp' = [op |-> "signInFailed"]
    /\ UNCHANGED <<backVars, clockVars, isAuthLoading, firebaseUser, isGuest,
                   isUserDataLoading, guestDataRef, authCb, snapshotVars,
                   flagVars, remote, saves, opVars>>

\* the provider reports a user: at start-up (a persisted session) or when the
\* popup succeeds.  Lines 73-84, up to the await of getUserData.
AuthStateChangedUser(uid) ==
    /\ authCb = Idle
    /\ signInPending \/ (isAuthLoading /\ firebaseUser = NULL)
    /\ signInPending' = FALSE
    /\ isUserDataLoading' = TRUE
    /\ isGuest' = FALSE
    /\ firebaseUser' = Some(uid)
    /\ authCb' = [pc |-> "loading", uid |-> uid]
    /\ lastOp' = [op |-> "authUser", uid |-> uid]
    /\ UNCHANGED <<backVars, clockVars, isAuthLoading, guestDataRef, snapshotVars,
                   flagVars, remote, saves, opVars>>

\* getUserData, part_007:61-76: the stored data, or null when there is no
\* document and also when getDoc throws
getUserData(doc, getDocOk) == IF getDocOk THEN DocData(doc) ELSE NULL

\* existingFirebaseData.f || dflt
FieldOr(data, f, dflt) == IF f \in DOMAIN data THEN data[f] ELSE dflt

HasProfile(existing) ==
    existing # NULL /\ FieldOr(Val(existing), "userProfile", NULL) # NULL

\* lines 88-93
LoadedData(data) ==
    UserData(FieldOr(data, "userProfile", NULL), FieldOr(data, "dailyLogs", <<>>),
             FieldOr(data, "workoutPlan", NULL), FieldOr(data, "weightLog", <<>>),
             FieldOr(data, "chatSessions", <<>>),
             FieldOr(data, "activeChatSessionId", NULL))

\* a callback that looks at the captured guest data first
AuthBranch_GuestFirst(existing, guestRef) ==
    IF guestRef # NULL THEN "migrate"
    ELSE IF HasProfile(existing) THEN "existing"
    ELSE "new"

\* the branch the callback takes after the load, lines 86, 94, 105
AuthBranch(existing, guestRef) ==
    IF HasProfile(existing) THEN "existing"
    ELSE IF guestRef # NULL THEN "migrate"
    ELSE "new"

\* getUserData returned, existing user: lines 86-93 and 114, 127
AuthLoadedExisting(getDocOk) ==
    /\ authCb.pc = "loading"
    /\ LET existing == getUserData(remote[authCb.uid], getDocOk)
       IN /\ AuthBranch(existing, guestDataRef) = "existing"
          /\ SetSnapshot(LoadedData(Val(existing)))
    /\ isUserDataLoading' = FALSE
    /\ isAuthLoading' = FALSE
    /\ authCb' = Idle
    /\ lastOp' = [op |-> "authResolved", branch |-> "existing",
                  uid |-> authCb.uid, getDocOk |-> getDocOk]
    /\ UNCHANGED <<backVars, clockVars, firebaseUser, isGuest, guestDataRef,
                   signInPending, flagVars, remote, saves, opVars>>

\* getUserData returned, guest data captured: lines 94-96, up to the await
\* of saveUserData
AuthLoadedMigrate(getDocOk) ==
    /\ authCb.pc = "loading"
    /\ LET existing == getUserData(remote[authCb.uid], getDocOk)
       IN AuthBranch(existing, guestDataRef) = "migrate"
    /\ Len(saves) < MaxSaves
    /\ saves' = Append(saves, SaveRequest(authCb.uid, Val(guestDataRef), "auth"))
    /\ authCb' = [authCb EXCEPT !.pc = "migrating"]
    /\ lastOp' = [op |-> "authMigrate", uid |-> authCb.uid,
                  getDocOk |-> getDocOk]
    /\ UNCHANGED <<backVars, clockVars, isAuthLoading, firebaseUser, isGuest,
                   isUserDataLoading, guestDataRef, signInPending,
                   snapshotVars, flagVars, remote, opVars>>

\* getUserData returned, brand new user: lines 105-114 and 127
AuthLoadedNew(getDocOk) ==
    /\ authCb.pc = "loading"
    /\ LET existing == getUserData(remote[authCb.uid], getDocOk)
       IN AuthBranch(existing, guestDataRef) = "new"
    /\ SetSnapshot(EmptyData)
    /\ isUserDataLoading' = FALSE
    /\ isAuthLoading' = FALSE
    /\ authCb' = Idle
    /\ lastOp' = [op |-> "authResolved", branch |-> "new",
                  uid |-> authCb.uid, getDocOk |-> getDocOk]
    /\ UNCHANGED <<backVars, clockVars, firebaseUser, isGuest, guestDataRef,
                   signInPending, flagVars, remote, saves, opVars>>

\* a sign-out branch that keeps the captured guest data
AuthStateChangedNull_KeepRef ==
    /\ authCb = Idle
    /\ \/ isAuthLoading /\ firebaseUser = NULL /\ ~signInPending
       \/ Screen = "dashboard" /\ firebaseUser # NULL
    /\ firebaseUser' = NULL
    /\ SetSnapshot(EmptyData)
    /\ isAuthLoading' = FALSE
    /\ lastOp' = [op |-> "authNull"]
    /\ UNCHANGED <<backVars, clockVars, isGuest, isUserDataLoading, guestDataRef,
                   signInPending, authCb, flagVars, remote, saves, opVars>>

\* the provider reports no user: at start-up, or after handleLogout
\* (App.tsx:147-151) called auth.signOut().  Lines 115-127.
AuthStateChangedNull ==
    /\ authCb = Idle
    /\ \/ isAuthLoading /\ firebaseUser = NULL /\ ~signInPending
       \/ Screen = "dashboard" /\ firebaseUser # NULL
    /\ guestDataRef' = NULL
    /\ firebaseUser' = NULL
    /\ SetSnapshot(EmptyData)
    /\ isAuthLoading' = FALSE
    /\ lastOp' = [op |-> "authNull"]
    /\ UNCHANGED <<backVars, clockVars, isGuest, isUserDataLoading, signInPending, authCb,
                   flagVars, remote, saves, opVars>>

----------------------------------------------------------------------------
(* Completion of the setDoc call at the head of the queue *)

\* the store after the head request settled
SettledRemote(ok) ==
    IF ok THEN [remote EXCEPT ![saves[1].uid] = SetDocMerge(@, saves[1].data)]
    ELSE remote

SettleHead(by, ok) ==
    /\ saves # <<>>
    /\ saves[1].by = by
    /\ remote' = SettledRemote(ok)

\* history: the request that settled in this step and its outcome
Settled(ok) == [uid |-> saves[1].uid, data |-> saves[1].data, ok |-> ok]

\* a save nobody continues after: the un-awaited saveData calls and the one
\* handleReset awaits last (App.tsx:200-202)
SaveSettled(ok) ==
    /\ SettleHead("none", ok)
    /\ saves' = Tail(saves)
    /\ lastOp' = [op |-> "saveSettled", settle |-> Settled(ok)]
    /\ UNCHANGED <<backVars, clockVars, authVars, snapshotVars, flagVars, opVars>>

\* the snapshot after the save awaited at App.tsx:171 settled: lines 175-180
\* run only when it resolved
CreateSettleSnapshot(ok) ==
    IF ok THEN InitialUserData(createOp.profile, createOp.plan) ELSE Snapshot

\* the save awaited by handleProfileCreate, App.tsx:171-188
CreateSaveSettled(ok) ==
    /\ SettleHead("create", ok)
    /\ saves' = Tail(saves)
    /\ SetSnapshot(CreateSettleSnapshot(ok))
    /\ isGeneratingPlan' = FALSE
    /\ createOp' = Idle
    /\ lastOp' = IF ok THEN [op |-> "createDone", saved |-> "ok",
                             settle |-> Settled(ok)]
                 ELSE [op |-> "createFailed", cause |-> "save",
                       settle |-> Settled(ok)]
    /\ UNCHANGED <<backVars, clockVars, authVars, dashboardError, isAiReplying, regenOp,
                   sendOp>>

\* the migration save awaited by the auth callback, App.tsx:96-104, 114, 127.
\* When it rejects the callback ends there, with the loading flag still set.
MigrateSaveSettled(ok) ==
    /\ SettleHead("auth", ok)
    /\ saves' = Tail(saves)
    /\ IF ok /\ guestDataRef # NULL
       THEN /\ SetSnapshot(Val(guestDataRef))
            /\ guestDataRef' = NULL
            /\ isUserDataLoading' = FALSE
            /\ isAuthLoading' = FALSE
       ELSE UNCHANGED <<backVars, snapshotVars, guestDataRef, isUserDataLoading,
                        isAuthLoading>>
    /\ authCb' = Idle
    /\ lastOp' = IF ok /\ guestDataRef # NULL
                 THEN [op |-> "authResolved", branch |-> "migrated",
                       uid |-> authCb.uid, guest |-> Val(guestDataRef),
                       existed |-> remote[authCb.uid].exists,
                       settle |-> Settled(ok)]
                 ELSE [op |-> "authAborted", uid |-> authCb.uid,
                       settle |-> Settled(ok)]
    /\ UNCHANGED <<backVars, clockVars, firebaseUser, isGuest, signInPending, flagVars,
                   opVars>>

----------------------------------------------------------------------------
(* handleReset, App.tsx:191-204 *)

handleReset ==
    /\ Screen = "dashboard"
    /\ CanSave(firebaseUser)
    /\ SetSnapshot(EmptyData)
    /\ saves' = SaveData(saves, firebaseUser, EmptyData, "none")
    /\ lastOp' = [op |-> "reset"]
    /\ UNCHANGED <<backVars, clockVars, authVars, flagVars, remote, opVars>>

----------------------------------------------------------------------------
(* handleRegeneratePlan, App.tsx:266-280, handleUpdateWorkoutPlan, 282-285 *)

\* the errors the AI client, the response parser and the transport can
\* raise: the class of the thrown value and the fragments its message is made
\* of
RawErrors ==
    { [class |-> "SyntaxError", message |-> <<"Unexpected token", " < in JSON">>],
      [class |-> "Error", message |-> <<"candidateslist is empty">>],
      [class |-> "Error", message |-> <<"Received an empty response", " from the AI.">>],
      [class |-> "Error", message |-> <<"API_KEY environment variable not set", ".">>],
      [class |-> "Error", message |-> <<"got status: ", "[400", " Bad Request]">>],
      [class |-> "Error", message |-> <<"got status: ", "[403", " Forbidden]">>],
      [class |-> "Error", message |-> <<"Failed to fetch">>],
      [class |-> "string", message |-> <<"aborted">>] }

\* message.includes(part)
Includes(message, part) == \E i \in 1..Len(message) : message[i] = part

\* handleGeminiError, part_006:114-150: the message of the Error it returns
handleGeminiError(error, context) ==
    LET isError == error.class \in {"Error", "SyntaxError"}
        isSafetyOrParseError ==
            \/ error.class = "SyntaxError"
            \/ isError /\ \/ Includes(error.message, "candidateslist is empty")
                           \/ Includes(error.message, "finish reason: 4")
                           \/ Includes(error.message, "Received an empty response")
                           \/ Includes(error.message, "Unexpected token")
    IN IF isSafetyOrParseError
       THEN IF context = "meal analysis"
            THEN <<"Only food-related images can be used here.">>
            ELSE <<"The AI model did not return a response.">>
       ELSE IF isError /\ Includes(error.message, "API_KEY environment variable not set")
       THEN <<"Your Gemini API key is not configured.">>
       ELSE IF isError /\ Includes(error.message, "[400")
       THEN <<"The request to the AI service was invalid during ", context, ".">>
       ELSE IF isError /\ Includes(error.message, "[403")
       THEN <<"Your Gemini API key is invalid or lacks the necessary permissions.">>
       ELSE <<"An unexpected error occurred with the Gemini API during ", context, ".">>

\* the messages generateWorkoutPlan rejects with, part_006:351-352
PlanErrors == {handleGeminiError(e, "workout plan generation") : e \in RawErrors}

\* the message of the error a rejected setDoc carries
SaveErrorMessage == <<"Missing or insufficient permissions.">>

\* clearError, App.tsx:450: the close button of the error banner
clearError ==
    /\ Screen = "dashboard"
    /\ dashboardError # NULL
    /\ dashboardError' = NULL
    /\ lastOp' = [op |-> "clearError"]
    /\ UNCHANGED <<backVars, clockVars, authVars, snapshotVars, isGeneratingPlan,
                   isAiReplying, remote, saves, opVars>>

\* lines 267-271: up to the await of generateWorkoutPlan
RegenStart ==
    /\ Screen = "dashboard"
    /\ ~isGeneratingPlan
    /\ regenOp = Idle
    /\ isGeneratingPlan' = TRUE
    /\ dashboardError' = NULL
    /\ regenOp' = [pc |-> "generating", user |-> firebaseUser,
                   before |-> workoutPlan]
    /\ lastOp' = [op |-> "regenStart"]
    /\ UNCHANGED <<backVars, clockVars, authVars, snapshotVars, isAiReplying, remote,
                   saves, createOp, sendOp>>

\* generateWorkoutPlan rejects: lines 274-279
RegenPlanFailed(msg) ==
    /\ regenOp.pc = "generating"
    /\ dashboardError' = Some(msg)
    /\ isGeneratingPlan' = FALSE
    /\ regenOp' = Idle
    /\ lastOp' = [op |-> "regenFailed", cause |-> "plan"]
    /\ UNCHANGED <<backVars, clockVars, authVars, snapshotVars, isAiReplying, remote,
                   saves, createOp, sendOp>>

\* generateWorkoutPlan resolves: lines 272-273; a guest has nothing to await
RegenPlanReturn(plan) ==
    /\ regenOp.pc = "generating"
    /\ CanSave(regenOp.user)
    /\ workoutPlan' = Some(plan)
    /\ saves' = SaveData(saves, regenOp.user, [workoutPlan |-> Some(plan)], "regen")
    /\ IF regenOp.user = NULL
       THEN /\ isGeneratingPlan' = FALSE
            /\ regenOp' = Idle
       ELSE /\ isGeneratingPlan' = isGeneratingPlan
            /\ regenOp' = [regenOp EXCEPT !.pc = "saving"]
    /\ lastOp' = [op |-> "regenPlan", plan |-> plan]
    /\ UNCHANGED <<backVars, clockVars, authVars, userProfile, dailyLogs, weightLog,
                   chatSessions, activeChatSessionId, dashboardError,
                   isAiReplying, remote, createOp, sendOp>>

\* the save awaited at line 273 settled: lines 274-279
RegenSaveSettled(ok) ==
    /\ SettleHead("regen", ok)
    /\ saves' = Tail(saves)
    /\ dashboardError' = IF ok THEN dashboardError ELSE Some(SaveErrorMessage)
    /\ isGeneratingPlan' = FALSE
    /\ regenOp' = Idle
    /\ lastOp' = IF ok THEN [op |-> "regenDone", settle |-> Settled(ok)]
                 ELSE [op |-> "regenFailed", cause |-> "save",
                       settle |-> Settled(ok)]
    /\ UNCHANGED <<backVars, clockVars, authVars, snapshotVars, isAiReplying, createOp,
                   sendOp>>

handleUpdateWorkoutPlan(updatedPlan) ==
    /\ Screen = "dashboard"
    /\ CanSave(firebaseUser)
    /\ workoutPlan' = Some(updatedPlan)
    /\ saves' = SaveData(saves, firebaseUser,
                         [workoutPlan |-> Some(updatedPlan)], "none")
    /\ lastOp' = [op |-> "updatePlan", plan |-> updatedPlan]
    /\ UNCHANGED <<backVars, clockVars, authVars, userProfile, dailyLogs, weightLog,
                   chatSessions, activeChatSessionId, flagVars, remote, opVars>>

----------------------------------------------------------------------------
(* Chat sessions, App.tsx:292-319 *)

SessionIds(sessions) == {sessions[i].id : i \in 1..Len(sessions)}

\* sessions.find(s => s.id === id), as an index; 0 when there is none
FindSession(sessions, id) ==
    IF \E i \in 1..Len(sessions) : sessions[i].id = id
    THEN CHOOSE i \in 1..Len(sessions) :
             /\ sessions[i].id = id
             /\ \A j \in 1..(i - 1) : sessions[j].id # id
    ELSE 0

\* arr.filter(keep)
RECURSIVE FilterOutId(_, _)
FilterOutId(sessions, id) ==
    IF sessions = <<>> THEN <<>>
    ELSE LET rest == FilterOutId(Tail(sessions), id)
         IN IF Head(sessions).id # id THEN <<Head(sessions)>> \o rest ELSE rest

handleCreateNewChat ==
    /\ Screen = "dashboard"
    /\ now < MaxClock
    /\ CanSave(firebaseUser)
    /\ LET newChat == [id |-> <<"chat", now>>, title |-> <<"New Chat">>,
                       history |-> <<>>]
           newSessions == <<newChat>> \o chatSessions
       IN /\ chatSessions' = newSessions
          /\ activeChatSessionId' = Some(newChat.id)
          /\ saves' = SaveData(saves, firebaseUser,
                               [chatSessions |-> newSessions,
                                activeChatSessionId |-> Some(newChat.id)], "none")
    /\ now' = now + 1
    /\ lastOp' = [op |-> "createChat", id |-> <<"chat", now>>]
    /\ UNCHANGED <<backVars, today, authVars, userProfile, dailyLogs, workoutPlan,
                   weightLog, flagVars, remote, opVars>>

\* the active session after chatId was deleted, lines 307-310
ActiveAfterDelete(active, chatId, newSessions) ==
    IF active = Some(chatId)
    THEN IF Len(newSessions) > 0 THEN Some(newSessions[1].id) ELSE NULL
    ELSE active

handleDeleteChat(chatId) ==
    /\ Screen = "dashboard"
    /\ chatId \in SessionIds(chatSessions)
    /\ CanSave(firebaseUser)
    /\ LET newSessions == FilterOutId(chatSessions, chatId)
           newActiveId == ActiveAfterDelete(activeChatSessionId, chatId, newSessions)
       IN /\ chatSessions' = newSessions
          /\ activeChatSessionId' = newActiveId
          /\ saves' = SaveData(saves, firebaseUser,
                               [chatSessions |-> newSessions,
                                activeChatSessionId |-> newActiveId], "none")
    /\ lastOp' = [op |-> "deleteChat", id |-> chatId]
    /\ UNCHANGED <<backVars, clockVars, authVars, userProfile, dailyLogs, workoutPlan,
                   weightLog, flagVars, remote, opVars>>

handleSwitchChat(sessionId) ==
    /\ Screen = "dashboard"
    /\ sessionId \in SessionIds(chatSessions)
    /\ CanSave(firebaseUser)
    /\ activeChatSessionId' = Some(sessionId)
    /\ saves' = SaveData(saves, firebaseUser,
                         [activeChatSessionId |-> Some(sessionId)], "none")
    /\ lastOp' = [op |-> "switchChat", id |-> sessionId]
    /\ UNCHANGED <<backVars, clockVars, authVars, userProfile, dailyLogs, workoutPlan,
                   weightLog, chatSessions, flagVars, remote, opVars>>

----------------------------------------------------------------------------
(* handleSendMessage, App.tsx:321-394 *)

\* the texts the chat form can send: a short one, one of exactly TitleLimit
\* characters and one of TitleLimit + 1
Chars(n) == [i \in 1..n |-> "c"]
Messages == {<<"H", "i">>, Chars(TitleLimit), Chars(TitleLimit + 1)}

Citations == { <<[uri |-> "u1", title |-> "t1"]>>,
               <<[uri |-> "u2", title |-> "t2"]>> }

\* the chunks a stream can deliver: a text delta, with or without
\* groundingChunks (already in the {uri, title} form of line 353)
ChunkChoices ==
    { [text |-> <<"x">>, grounding |-> UNDEFINED] }
    \cup { [text |-> <<"y">>, grounding |-> Some(g)] : g \in Citations }

\* the messages continueChat rejects with, part_006:427-428
ChatErrors == {handleGeminiError(e, "chat session") : e \in RawErrors}

\* error instanceof Error ? error.message : "An unexpected error occurred.",
\* App.tsx:379
CatchMessage(error) ==
    IF error.class \in {"Error", "SyntaxError"} THEN error.message
    ELSE <<"An unexpected error occurred.">>

\* the messages the catch block sees when the stream throws while App.tsx:349
\* consumes it
StreamErrors == {CatchMessage(e) : e \in RawErrors}

\* a title that gets the ellipsis from TitleLimit characters on
DeriveTitle_AtLimit(message) ==
    SubSeq(message, 1, IF Len(message) < TitleLimit THEN Len(message) ELSE TitleLimit)
    \o (IF Len(message) >= TitleLimit THEN <<"...">> ELSE <<>>)

\* message.substring(0, 30) + (message.length > 30 ? '...' : ''), line 334
DeriveTitle(message) ==
    SubSeq(message, 1, IF Len(message) < TitleLimit THEN Len(message) ELSE TitleLimit)
    \o (IF Len(message) > TitleLimit THEN <<"...">> ELSE <<>>)

\* a || b that keeps the second value when there is one
OrElse_KeepSecond(a, b) == IF b # UNDEFINED THEN b ELSE a

\* a || b on optional values
OrElse(a, b) == IF a # UNDEFINED THEN a ELSE b

MsgGrounding(msg) == IF "grounding" \in DOMAIN msg THEN msg.grounding ELSE UNDEFINED

\* sessions.map(...) of lines 330-338
AppendTurn(sessions, activeId, message, userMessage, placeholderMessage) ==
    [i \in 1..Len(sessions) |->
        IF sessions[i].id = activeId
        THEN [sessions[i] EXCEPT
                 !.title = IF Len(sessions[i].history) = 0
                           THEN DeriveTitle(message) ELSE @,
                 !.history = @ \o <<userMessage, placeholderMessage>>]
        ELSE sessions[i]]

\* a delta applied by appending a new model message instead of patching the
\* placeholder
PatchResponse_Append(sessions, activeId, modelMessageId, finalResponse, latestGrounding) ==
    [i \in 1..Len(sessions) |->
        IF sessions[i].id = activeId
        THEN [sessions[i] EXCEPT !.history =
                 Append(@, [id |-> modelMessageId, role |-> "model",
                            text |-> finalResponse, grounding |-> latestGrounding])]
        ELSE sessions[i]]

\* sessions.map(...) of lines 355-363 and 366-374: the text and the grounding
\* of the message modelMessageId of session activeId
PatchResponse(sessions, activeId, modelMessageId, finalResponse, latestGrounding) ==
    [i \in 1..Len(sessions) |->
        IF sessions[i].id = activeId
        THEN [sessions[i] EXCEPT !.history =
                 [j \in 1..Len(sessions[i].history) |->
                     LET msg == sessions[i].history[j]
                     IN IF msg.id = modelMessageId
                        THEN [text |-> finalResponse,
                              grounding |-> OrElse(latestGrounding, MsgGrounding(msg))]
                             @@ msg
                        ELSE msg]]
        ELSE sessions[i]]

\* sessions.map(...) of lines 380-388
PatchError(sessions, activeId, modelMessageId, errorMessage) ==
    [i \in 1..Len(sessions) |->
        IF sessions[i].id = activeId
        THEN [sessions[i] EXCEPT !.history =
                 [j \in 1..Len(sessions[i].history) |->
                     LET msg == sessions[i].history[j]
                     IN IF msg.id = modelMessageId
                        THEN [msg EXCEPT !.text = <<"Error: ", errorMessage>>]
                        ELSE msg]]
        ELSE sessions[i]]

\* contents of the request, part_006:409-414: the history handed over, then
\* the user message
ChatContents(history, userMessage) ==
    [i \in 1..Len(history) |-> [role |-> history[i].role, text |-> history[i].text]]
    \o <<[role |-> "user", text |-> userMessage]>>

ContextLogs == 7      \* part_006:373
ContextWeights == 10  \* part_006:377

\* arr.slice(-n)
SliceLast(arr, n) ==
    SubSeq(arr, IF Len(arr) > n THEN Len(arr) - n + 1 ELSE 1, Len(arr))

\* recentLogs, part_006:373-375: date, calories and weight of each of the
\* last ContextLogs logs
RecentLogs(logs) ==
    LET recent == SliceLast(logs, ContextLogs)
    IN [i \in 1..Len(recent) |->
           [date |-> recent[i].date,
            calories |-> recent[i].totalNutrition.calories,
            weight |-> IF "weight" \in DOMAIN recent[i] /\ recent[i].weight # 0
                       THEN Some(recent[i].weight) ELSE UNDEFINED]]

\* weightHistory, part_006:377-379
RecentWeights(wlog) ==
    LET recent == SliceLast(wlog, ContextWeights)
    IN [i \in 1..Len(recent) |->
           [date |-> ISODay(recent[i].date), weight |-> recent[i].weight]]

\* the catch block, lines 377-390, and finally when there is nothing to await
SendCatch(op, errorMessage) ==
    LET errorSessions == PatchError(op.sessions, op.active, op.modelId, errorMessage)
    IN /\ chatSessions' = errorSessions
       /\ saves' = SaveData(saves, op.user, [chatSessions |-> errorSessions], "sendErr")
       /\ IF op.user = NULL
          THEN /\ isAiReplying' = FALSE
               /\ sendOp' = Idle
          ELSE /\ isAiReplying' = TRUE
               /\ sendOp' = [op EXCEPT !.pc = "errsaving"]
       /\ lastOp' = [op |-> "sendCatch", error |-> errorMessage,
                     saved |-> errorSessions, active |-> op.active,
                     modelId |-> op.modelId, userId |-> op.userId,
                     message |-> op.message, before |-> chatSessions]

\* lines 322-345: up to the await of continueChat; when the active session is
\* not in the list the throw of line 343 is caught at once
SendStart(message) ==
    /\ Screen = "dashboard"
    /\ ~isAiReplying
    /\ sendOp = Idle
    /\ activeChatSessionId # NULL
    /\ now < MaxClock
    /\ CanSave(firebaseUser)
    /\ LET activeId == Val(activeChatSessionId)
           userMessage == [id |-> <<"user", now>>, role |-> "user", text |-> message]
           modelMessageId == <<"model", now>>
           placeholderMessage == [id |-> modelMessageId, role |-> "model",
                                  text |-> <<>>]
           updatedSessions == AppendTurn(chatSessions, activeId, message,
                                         userMessage, placeholderMessage)
           k == FindSession(updatedSessions, activeId)
           op == [pc |-> "requesting", sessions |-> chatSessions,
                  active |-> activeId, modelId |-> modelMessageId,
                  userId |-> userMessage.id, message |-> message,
                  user |-> firebaseUser, finalResponse |-> <<>>,
                  latestGrounding |-> UNDEFINED, chunks |-> 0,
                  context |-> [recentLogs |-> RecentLogs(dailyLogs),
                               weightHistory |-> RecentWeights(weightLog)],
                  contents |-> IF k = 0 THEN <<>>
                               ELSE ChatContents(updatedSessions[k].history, message)]
       IN IF k > 0
          THEN /\ chatSessions' = updatedSessions
               /\ isAiReplying' = TRUE
               /\ sendOp' = op
               /\ lastOp' = [op |-> "sendStart", message |-> message,
                             active |-> activeId, modelId |-> modelMessageId]
               /\ saves' = saves
          ELSE SendCatch(op, "Active session not found")
    /\ now' = now + 1
    /\ UNCHANGED <<backVars, today, authVars, userProfile, dailyLogs, workoutPlan,
                   weightLog, activeChatSessionId, isGeneratingPlan,
                   dashboardError, remote, createOp, regenOp>>

\* continueChat rejects
SendRequestFailed(msg) ==
    /\ sendOp.pc = "requesting"
    /\ CanSave(sendOp.user)
    /\ SendCatch(sendOp, msg)
    /\ UNCHANGED <<backVars, clockVars, authVars, userProfile, dailyLogs, workoutPlan,
                   weightLog, activeChatSessionId, isGeneratingPlan,
                   dashboardError, remote, createOp, regenOp>>

\* the stream throws while it is consumed
SendStreamFailed(msg) ==
    /\ sendOp.pc = "streaming"
    /\ CanSave(sendOp.user)
    /\ SendCatch(sendOp, msg)
    /\ UNCHANGED <<backVars, clockVars, authVars, userProfile, dailyLogs, workoutPlan,
                   weightLog, activeChatSessionId, isGeneratingPlan,
                   dashboardError, remote, createOp, regenOp>>

\* one iteration of the for-await loop, lines 349-364
SendChunk(chunk) ==
    /\ sendOp.pc \in {"requesting", "streaming"}
    /\ sendOp.chunks < MaxChunks
    /\ LET finalResponse == sendOp.finalResponse \o chunk.text
           latestGrounding == OrElse(chunk.grounding, sendOp.latestGrounding)
       IN /\ chatSessions' = PatchResponse(chatSessions, sendOp.active,
                                           sendOp.modelId, finalResponse,
                                           latestGrounding)
          /\ sendOp' = [sendOp EXCEPT !.pc = "streaming",
                                      !.finalResponse = finalResponse,
                                      !.latestGrounding = latestGrounding,
                                      !.chunks = @ + 1]
    /\ lastOp' = [op |-> "sendChunk", chunk |-> chunk]
    /\ UNCHANGED <<backVars, clockVars, authVars, userProfile, dailyLogs, workoutPlan,
                   weightLog, activeChatSessionId, flagVars, remote, saves,
                   createOp, regenOp>>

\* the stream is exhausted: lines 366-375, and finally for a guest
SendStreamEnd ==
    /\ sendOp.pc \in {"requesting", "streaming"}
    /\ CanSave(sendOp.user)
    /\ LET finalSessions == PatchResponse(sendOp.sessions, sendOp.active,
                                          sendOp.modelId, sendOp.finalResponse,
                                          sendOp.latestGrounding)
       IN /\ saves' = SaveData(saves, sendOp.user,
                               [chatSessions |-> finalSessions], "send")
          /\ lastOp' = [op |-> "sendStreamEnd", saved |-> finalSessions,
                        active |-> sendOp.active, modelId |-> sendOp.modelId,
                        userId |-> sendOp.userId, message |-> sendOp.message,
                        finalResponse |-> sendOp.finalResponse,
                        latestGrounding |-> sendOp.latestGrounding]
    /\ IF sendOp.user = NULL
       THEN /\ isAiReplying' = FALSE
            /\ sendOp' = Idle
       ELSE /\ isAiReplying' = isAiReplying
            /\ sendOp' = [sendOp EXCEPT !.pc = "saving"]
    /\ UNCHANGED <<backVars, clockVars, authVars, snapshotVars, isGeneratingPlan,
                   dashboardError, remote, createOp, regenOp>>

\* chatSessions after the save awaited at line 375 settled: untouched when
\* it resolved, the errorSessions of the catch block when it rejected
SendSettleSessions(ok) ==
    IF ok THEN chatSessions
    ELSE PatchError(sendOp.sessions, sendOp.active, sendOp.modelId,
                    SaveErrorMessage)

\* the save of line 375 resolves: finally
SendSaveDone ==
    /\ SettleHead("send", TRUE)
    /\ saves' = Tail(saves)
    /\ chatSessions' = SendSettleSessions(TRUE)
    /\ isAiReplying' = FALSE
    /\ sendOp' = Idle
    /\ lastOp' = [op |-> "sendDone", settle |-> Settled(TRUE)]
    /\ UNCHANGED <<backVars, clockVars, authVars, userProfile, dailyLogs, workoutPlan,
                   weightLog, activeChatSessionId, isGeneratingPlan,
                   dashboardError, createOp, regenOp>>

\* the save of line 375 rejects: the catch block runs
SendSaveFailed ==
    /\ SettleHead("send", FALSE)
    /\ LET errorSessions == SendSettleSessions(FALSE)
       IN /\ chatSessions' = errorSessions
          /\ saves' = Append(Tail(saves),
                             SaveRequest(Val(sendOp.user),
                                         [chatSessions |-> errorSessions], "sendErr"))
          /\ lastOp' = [op |-> "sendCatch", error |-> SaveErrorMessage,
                        saved |-> errorSessions, active |-> sendOp.active,
                        modelId |-> sendOp.modelId, userId |-> sendOp.userId,
                        message |-> sendOp.message, before |-> chatSessions,
                        settle |-> Settled(FALSE)]
    /\ sendOp' = [sendOp EXCEPT !.pc = "errsaving"]
    /\ UNCHANGED <<backVars, clockVars, authVars, userProfile, dailyLogs, workoutPlan,
                   weightLog, activeChatSessionId, flagVars, createOp, regenOp>>

\* the save of line 390 settled, the flag cleared after the await and not in
\* a finally block
SendErrSaveSettled_NoFinally(ok) ==
    /\ SettleHead("sendErr", ok)
    /\ saves' = Tail(saves)
    /\ isAiReplying' = ~ok
    /\ sendOp' = Idle
    /\ lastOp' = [op |-> "sendErrDone", settle |-> Settled(ok)]
    /\ UNCHANGED <<backVars, clockVars, authVars, snapshotVars, isGeneratingPlan,
                   dashboardError, createOp, regenOp>>

\* the save of line 390 settled: finally (a rejection leaves the handler)
SendErrSaveSettled(ok) ==
    /\ SettleHead("sendErr", ok)
    /\ saves' = Tail(saves)
    /\ isAiReplying' = FALSE
    /\ sendOp' = Idle
    /\ lastOp' = [op |-> "sendErrDone", settle |-> Settled(ok)]
    /\ UNCHANGED <<backVars, clockVars, authVars, snapshotVars, isGeneratingPlan,
                   dashboardError, createOp, regenOp>>

----------------------------------------------------------------------------
(* generateWorkoutPlan, part_006:251-354 *)

DetailNames == {"Sets", "Reps", "Weight"}
DetailValues == {"3", "10"}

\* the items of a details array, part_006:81-88
DetailEntries == [name : DetailNames, value : DetailValues]

DetailLists == UNION {[1..n -> DetailEntries] : n \in 0..MaxDetails}

Exercises == {"Squat", "Plank"}

\* the plans JSON.parse of line 321 can give: one day with one session of two
\* workouts
PlanResponses ==
    {[planName |-> "plan",
      weeklySchedule |->
          << [day |-> "Day 1",
              sessions |->
                  << [name |-> "Strength",
                      workouts |-> << [exercise |-> "Squat", details |-> d1],
                                      [exercise |-> "Plank", details |-> d2] >>] >>] >>] :
        d1 \in DetailLists,
        d2 \in {<<>>, <<[name |-> "Reps", value |-> "10"],
                        [name |-> "Sets", value |-> "3"]>>}}

\* what fetchExerciseImage resolves with for each exercise, part_006:205-248
ImageResults == [Exercises -> {UNDEFINED, Some("https://img")}]

\* details.find(d => d.name === name), lines 327-328
FindDetail(details, name) ==
    IF \E i \in 1..Len(details) : details[i].name = name
    THEN Some(details[CHOOSE i \in 1..Len(details) :
                         /\ details[i].name = name
                         /\ \A j \in 1..(i - 1) : details[j].name # name])
    ELSE UNDEFINED

IsOtherDetail(d) == d.name # "Sets" /\ d.name # "Reps"

\* a promotion that leaves the details array as it was
PromoteWorkout_KeepDetails(workout) ==
    LET setsDetail == FindDetail(workout.details, "Sets")
        repsDetail == FindDetail(workout.details, "Reps")
    IN [sets |-> IF setsDetail # UNDEFINED THEN Val(setsDetail).value ELSE "N/A",
        reps |-> IF repsDetail # UNDEFINED THEN Val(repsDetail).value ELSE "N/A"]
       @@ workout

\* the body of the innermost forEach, lines 327-336
PromoteWorkout(workout) ==
    LET setsDetail == FindDetail(workout.details, "Sets")
        repsDetail == FindDetail(workout.details, "Reps")
    IN [sets |-> IF setsDetail # UNDEFINED THEN Val(setsDetail).value ELSE "N/A",
        reps |-> IF repsDetail # UNDEFINED THEN Val(repsDetail).value ELSE "N/A",
        details |-> SelectSeq(workout.details, IsOtherDetail)]
       @@ workout

\* lines 321-349: the parsed plan with every workout promoted and given its
\* image
generateWorkoutPlan(response, images) ==
    [response EXCEPT !.weeklySchedule =
        [i \in 1..Len(@) |->
            [@[i] EXCEPT !.sessions =
                [j \in 1..Len(@) |->
                    [@[j] EXCEPT !.workouts =
                        [k \in 1..Len(@) |->
                            [imageUrl |-> images[@[k].exercise]]
                            @@ PromoteWorkout(@[k])]]]]]]

\* generateContent of line 307 resolved and the image searches of line 343
\* settled: the results are held until the plan is handed to the caller
PlanResponseArrives(response, images) ==
    /\ createOp.pc = "generating"
    /\ "response" \notin DOMAIN createOp
    /\ createOp' = [response |-> response, images |-> images] @@ createOp
    /\ lastOp' = [op |-> "planResponse"]
    /\ UNCHANGED <<backVars, clockVars, authVars, snapshotVars, flagVars, remote, saves,
                   regenOp, sendOp>>

----------------------------------------------------------------------------
(* useBackHandler, hooks/useBackHandler.ts:14-42 *)

appStateVars == <<clockVars, authVars, snapshotVars, flagVars, remote, saves,
                  opVars>>

\* the components that go away when c closes: MealLogger is mounted only
\* while the meal logger is open (Chatbox.tsx:492), and the camera with it
ClosedWith(c) ==
    IF c = "mealLogger" THEN {d \in Components : isOpen[d]} ELSE {c}

\* the cleanup functions of the components in closing, lines 31-40, run in
\* one commit while the current entry is entries[index]: each removes its
\* listener and calls history.back() when the current state has modalOpen
Cleanup(closing, entries, index, pending) ==
    /\ isOpen' = [c \in Components |-> isOpen[c] /\ c \notin closing]
    /\ popstateListeners' = popstateListeners \ closing
    /\ pendingTraversals' =
          pending + (IF entries[index] THEN Cardinality(closing) ELSE 0)

\* the user opens component c; the effect runs, lines 22-28: pushState and
\* addEventListener. A traversal is carried out before the next input of
\* the user.
OpenComponent(c) ==
    /\ Screen = "dashboard"
    /\ pendingTraversals = 0
    /\ historyIndex >= BaseIndex
    /\ ~isOpen[c]
    /\ c = "camera" => isOpen["mealLogger"]
    /\ c = "mealLogger" => ~isOpen["camera"]
    /\ isOpen' = [isOpen EXCEPT ![c] = TRUE]
    /\ historyEntries' = Append(SubSeq(historyEntries, 1, historyIndex), TRUE)
    /\ historyIndex' = historyIndex + 1
    /\ popstateListeners' = popstateListeners \cup {c}
    /\ lastOp' = [op |-> "openComponent", component |-> c]
    /\ UNCHANGED <<appStateVars, pendingTraversals>>

\* the user closes component c with its close button; the cleanup runs
CloseComponent(c) ==
    /\ isOpen[c]
    /\ pendingTraversals = 0
    /\ c = "mealLogger" => ~isOpen["camera"]
    /\ Cleanup(ClosedWith(c), historyEntries, historyIndex, pendingTraversals)
    /\ lastOp' = [op |-> "closeComponent", component |-> c]
    /\ UNCHANGED <<appStateVars, historyEntries, historyIndex>>

\* the session history moves one entry back and popstate is dispatched: every
\* registered handlePopState calls its onClose (lines 16-20), and the
\* cleanups of the components closed by them run. Moving to the entry
\* before the page's own unloads the page.
TraverseBack(op, pending) ==
    /\ historyIndex >= BaseIndex
    /\ historyIndex' = historyIndex - 1
    /\ historyEntries' = historyEntries
    /\ IF historyIndex = BaseIndex
       THEN /\ isOpen' = [c \in Components |-> FALSE]
            /\ popstateListeners' = {}
            /\ pendingTraversals' = 0
            /\ lastOp' = [op |-> op, called |-> {}, unloaded |-> TRUE]
       ELSE /\ Cleanup(UNION {ClosedWith(c) : c \in popstateListeners},
                       historyEntries, historyIndex - 1, pending)
            /\ lastOp' = [op |-> op, called |-> popstateListeners,
                          unloaded |-> FALSE]
    /\ UNCHANGED appStateVars

\* the user presses the back button
PressBack ==
    /\ pendingTraversals = 0
    /\ TraverseBack("pressBack", 0)

\* a history.back() called by a cleanup is carried out
HistoryBack ==
    /\ pendingTraversals > 0
    /\ TraverseBack("historyBack", pendingTraversals - 1)

----------------------------------------------------------------------------
(* Specifications *)

\* A guest who sets up a profile and logs meals and weights
NextLog ==
    \/ AuthStateChangedNull
    \/ handleContinueAsGuest
    \/ AdvanceDay
    \/ \E profile \in {p \in NewProfiles : p.weight = 70} : CreateStart(profile)
    \/ CreatePlanFailed
    \/ CreatePlanReturnGuest("planA")
    \/ \E meal \in MealChoices, date \in Days : addMeal(meal, date)
    \/ \E weight \in Weights, date \in Days : addWeightEntry(weight, date)
    \/ handleReset

SpecLog == Init /\ [][NextLog]_vars

\* A returning user (stored profile) who manages chat sessions and chats
NextChat ==
    \/ AuthStateChangedUser("u2")
    \/ AuthLoadedExisting(TRUE)
    \/ handleCreateNewChat
    \/ \E chatId \in SessionIds(chatSessions) : handleDeleteChat(chatId)
    \/ \E sessionId \in SessionIds(chatSessions) : handleSwitchChat(sessionId)
    \/ SendStart(<<"H", "i">>)
    \/ \E e \in {r \in RawErrors : r.class = "string"} :
           SendRequestFailed(handleGeminiError(e, "chat session"))
    \/ \E e \in {r \in RawErrors : r.class = "string"} : SendStreamFailed(CatchMessage(e))
    \/ \E chunk \in {c \in ChunkChoices :
                          c.grounding \in {UNDEFINED, Some(<<[uri |-> "u1", title |-> "t1"]>>)}} :
           SendChunk(chunk)
    \/ SendStreamEnd
    \/ SendSaveDone
    \/ SendSaveFailed
    \/ \E ok \in BOOLEAN : SendErrSaveSettled(ok)
    \/ \E ok \in BOOLEAN : SaveSettled(ok)

SpecChat == Init /\ [][NextChat]_vars

\* Guests who set up a profile, log one meal and have one chat turn, then
\* sign in as a new or as a returning user; signed-in users set up a profile
\* and sign out
NextAuth ==
    \/ AuthStateChangedNull
    \/ handleContinueAsGuest
    \/ \E profile \in {p \in NewProfiles : p.weight = 72 /\ p.registrationDate.ms = 0} :
           CreateStart(profile)
    \/ CreatePlanReturnGuest("planB")
    \/ CreatePlanReturnUser("planB")
    \/ \E ok \in BOOLEAN : CreateSaveSettled(ok)
    \/ isGuest /\ dailyLogs = <<>> /\ \E meal \in {m \in MealChoices : m.id = "m1"} : addMeal(meal, 1)
    \/ isGuest /\ chatSessions = <<>> /\ handleCreateNewChat
    \/ isGuest /\ (\A i \in 1..Len(chatSessions) : chatSessions[i].history = <<>>)
               /\ SendStart(<<"H", "i">>)
    \/ isGuest /\ sendOp.pc = "requesting" /\ SendChunk([text |-> <<"x">>, grounding |-> UNDEFINED])
    \/ isGuest /\ SendStreamEnd
    \/ handleSignInAttempt
    \/ SignInFailed
    \/ \E uid \in Users : AuthStateChangedUser(uid)
    \/ AuthLoadedExisting(TRUE)
    \/ \E getDocOk \in BOOLEAN : AuthLoadedMigrate(getDocOk)
    \/ \E getDocOk \in BOOLEAN : AuthLoadedNew(getDocOk)
    \/ \E ok \in BOOLEAN : MigrateSaveSettled(ok)

SpecAuth == Init /\ [][NextAuth]_vars

\* the same, where getDoc and the setDoc of the migration settle and the
\* callback then continues
SpecAuthLive ==
    /\ Init
    /\ [][NextAuth]_vars
    /\ WF_vars(AuthLoadedExisting(TRUE))
    /\ WF_vars(\E getDocOk \in BOOLEAN : AuthLoadedMigrate(getDocOk))
    /\ WF_vars(\E getDocOk \in BOOLEAN : AuthLoadedNew(getDocOk))
    /\ WF_vars(\E ok \in BOOLEAN : MigrateSaveSettled(ok))

\* A new signed-in user who sets up a profile and uses every operation that
\* saves (one meal, one weight entry, one chat turn of one chunk), with saves
\* that resolve and saves that reject
NextSave ==
    \/ AuthStateChangedUser("u1")
    \/ AuthLoadedNew(TRUE)
    \/ \E profile \in {p \in NewProfiles : p.weight = 72 /\ p.registrationDate.ms = 0} :
           CreateStart(profile)
    \/ CreatePlanReturnUser("planA")
    \/ \E ok \in BOOLEAN : CreateSaveSettled(ok)
    \/ /\ dailyLogs = <<>> /\ sendOp = Idle
       /\ \E meal \in {m \in MealChoices : m.id = "m1"} : addMeal(meal, 1)
    \/ Len(weightLog) = 1 /\ sendOp = Idle /\ addWeightEntry(70, 1)
    \/ workoutPlan = Some("planA") /\ RegenStart
    \/ RegenPlanReturn("planB")
    \/ \E ok \in BOOLEAN : RegenSaveSettled(ok)
    \/ workoutPlan = Some("planB") /\ handleUpdateWorkoutPlan("planC")
    \/ chatSessions = <<>> /\ handleCreateNewChat
    \/ \E chatId \in SessionIds(chatSessions) : handleDeleteChat(chatId)
    \/ \E sessionId \in SessionIds(chatSessions) : handleSwitchChat(sessionId)
    \/ (\A i \in 1..Len(chatSessions) : chatSessions[i].history = <<>>)
           /\ SendStart(<<"H", "i">>)
    \/ sendOp.pc = "requesting" /\ SendChunk([text |-> <<"x">>, grounding |-> UNDEFINED])
    \/ SendStreamEnd
    \/ \E e \in {r \in RawErrors : r.class = "string"} :
           SendRequestFailed(handleGeminiError(e, "chat session"))
    \/ SendSaveDone
    \/ SendSaveFailed
    \/ \E ok \in BOOLEAN : SendErrSaveSettled(ok)
    \/ \E ok \in BOOLEAN : SaveSettled(ok)

SpecSave == Init /\ [][NextSave]_vars

\* A returning user who regenerates the plan, chats, resets the profile or
\* signs out while a regeneration or a send is in flight, and sets up a
\* profile again
NextReset ==
    \/ AuthStateChangedUser("u2")
    \/ AuthLoadedExisting(TRUE)
    \/ AuthStateChangedNull
    \/ handleSignInAttempt
    \/ handleReset
    \/ \E profile \in {p \in NewProfiles : p.weight = 72 /\ p.registrationDate.ms = 0} :
           CreateStart(profile)
    \/ CreatePlanReturnUser("planA")
    \/ \E ok \in BOOLEAN : CreateSaveSettled(ok)
    \/ workoutPlan = Some("planA") /\ RegenStart
    \/ RegenPlanReturn("planB")
    \/ \E e \in {r \in RawErrors : r.class = "string"} :
           RegenPlanFailed(handleGeminiError(e, "workout plan generation"))
    \/ \E ok \in BOOLEAN : RegenSaveSettled(ok)
    \/ chatSessions = <<>> /\ handleCreateNewChat
    \/ (\A i \in 1..Len(chatSessions) : chatSessions[i].history = <<>>)
           /\ SendStart(<<"H", "i">>)
    \/ sendOp.pc = "requesting" /\ SendChunk([text |-> <<"x">>, grounding |-> UNDEFINED])
    \/ SendStreamEnd
    \/ \E e \in {r \in RawErrors : r.class = "string"} : SendStreamFailed(CatchMessage(e))
    \/ SendSaveDone
    \/ SendSaveFailed
    \/ \E ok \in BOOLEAN : SendErrSaveSettled(ok)
    \/ \E ok \in BOOLEAN : SaveSettled(ok)

SpecReset == Init /\ [][NextReset]_vars

\* A returning user whose plan regenerations and chat sends fail in every
\* way: the request, the stream, the save
NextErrors ==
    \/ AuthStateChangedUser("u2")
    \/ AuthLoadedExisting(TRUE)
    \/ RegenStart
    \/ RegenPlanReturn("planB")
    \/ \E msg \in PlanErrors : RegenPlanFailed(msg)
    \/ \E ok \in BOOLEAN : RegenSaveSettled(ok)
    \/ clearError
    \/ chatSessions = <<>> /\ handleCreateNewChat
    \/ SendStart(<<"H", "i">>)
    \/ \E msg \in ChatErrors : SendRequestFailed(msg)
    \/ sendOp.pc = "requesting" /\ SendChunk([text |-> <<"x">>, grounding |-> UNDEFINED])
    \/ \E msg \in StreamErrors : SendStreamFailed(msg)
    \/ SendStreamEnd
    \/ SendSaveDone
    \/ SendSaveFailed
    \/ \E ok \in BOOLEAN : SendErrSaveSettled(ok)
    \/ \E ok \in BOOLEAN : SaveSettled(ok)

SpecErrors == Init /\ [][NextErrors]_vars

\* the document of a returning user who had one chat turn before
StoredSession ==
    [id |-> <<"chat", 0>>, title |-> <<"Old">>,
     history |-> << [id |-> <<"user", 0>>, role |-> "user", text |-> <<"Q">>],
                    [id |-> <<"model", 0>>, role |-> "model", text |-> <<"A">>] >>]

StoredChatDoc ==
    [exists |-> TRUE,
     data |-> UserData(Some(ExistingProfile), <<>>, Some("planA"),
                       <<[date |-> ISO(1, 0), weight |-> 70]>>,
                       <<StoredSession>>, Some(StoredSession.id))]

InitStored ==
    /\ today = 1
    /\ now = 1
    /\ isAuthLoading = TRUE
    /\ firebaseUser = NULL
    /\ isGuest = FALSE
    /\ isUserDataLoading = FALSE
    /\ guestDataRef = NULL
    /\ userProfile = NULL
    /\ dailyLogs = <<>>
    /\ workoutPlan = NULL
    /\ weightLog = <<>>
    /\ chatSessions = <<>>
    /\ activeChatSessionId = NULL
    /\ isGeneratingPlan = FALSE
    /\ dashboardError = NULL
    /\ isAiReplying = FALSE
    /\ remote = [u \in Users |-> IF u = "u2" THEN StoredChatDoc ELSE NoDoc]
    /\ saves = <<>>
    /\ signInPending = FALSE
    /\ authCb = Idle
    /\ createOp = Idle
    /\ regenOp = Idle
    /\ sendOp = Idle
    /\ lastOp = [op |-> "init"]
    /\ InitBack

\* A returning user with a stored chat session who creates, switches and
\* deletes sessions and sends messages of every length class
NextStored ==
    \/ AuthStateChangedUser("u2")
    \/ AuthLoadedExisting(TRUE)
    \/ handleCreateNewChat
    \/ \E chatId \in SessionIds(chatSessions) : handleDeleteChat(chatId)
    \/ \E sessionId \in SessionIds(chatSessions) : handleSwitchChat(sessionId)
    \/ \E message \in Messages : SendStart(message)
    \/ \E e \in {r \in RawErrors : r.class = "string"} :
           SendRequestFailed(handleGeminiError(e, "chat session"))
    \/ sendOp.pc = "requesting" /\ SendChunk([text |-> <<"x">>, grounding |-> UNDEFINED])
    \/ \E e \in {r \in RawErrors : r.class = "string"} : SendStreamFailed(CatchMessage(e))
    \/ SendStreamEnd
    \/ SendSaveDone
    \/ SendSaveFailed
    \/ SendErrSaveSettled(TRUE)
    \/ SaveSettled(TRUE)

SpecStored == InitStored /\ [][NextStored]_vars

\* A returning user with a stored chat session who streams a turn of every
\* combination of chunks on a new or on the stored session
NextStream ==
    \/ AuthStateChangedUser("u2")
    \/ AuthLoadedExisting(TRUE)
    \/ Len(chatSessions) = 1 /\ handleCreateNewChat
    \/ \E sessionId \in SessionIds(chatSessions) : handleSwitchChat(sessionId)
    \/ /\ \A i \in 1..Len(chatSessions) :
              chatSessions[i] = StoredSession \/ chatSessions[i].history = <<>>
       /\ SendStart(<<"H", "i">>)
    \/ \E chunk \in ChunkChoices : SendChunk(chunk)
    \/ SendStreamEnd
    \/ SendSaveDone
    \/ SaveSettled(TRUE)

SpecStream == InitStored /\ [][NextStream]_vars

\* A returning user who sends one message; every way the request, the stream
\* and the saves can end
NextSend ==
    \/ AuthStateChangedUser("u2")
    \/ AuthLoadedExisting(TRUE)
    \/ chatSessions = <<>> /\ handleCreateNewChat
    \/ \E chatId \in SessionIds(chatSessions) : handleDeleteChat(chatId)
    \/ SendStart(<<"H", "i">>)
    \/ \E e \in {r \in RawErrors : r.class = "string"} :
           SendRequestFailed(handleGeminiError(e, "chat session"))
    \/ sendOp.pc = "requesting" /\ SendChunk([text |-> <<"x">>, grounding |-> UNDEFINED])
    \/ \E e \in {r \in RawErrors : r.class = "string"} : SendStreamFailed(CatchMessage(e))
    \/ SendStreamEnd
    \/ SendSaveDone
    \/ SendSaveFailed
    \/ \E ok \in BOOLEAN : SendErrSaveSettled(ok)
    \/ \E ok \in BOOLEAN : SaveSettled(ok)

\* every setDoc promise settles, and the code that awaits it then runs
SpecSend ==
    /\ Init
    /\ [][NextSend]_vars
    /\ WF_vars(\E ok \in BOOLEAN : SaveSettled(ok))
    /\ WF_vars(SendSaveDone \/ SendSaveFailed)
    /\ WF_vars(\E ok \in BOOLEAN : SendErrSaveSettled(ok))

\* The returning user u2 regenerates the plan and sends a message, signs
\* out, and the new user u1 signs in on the same device and does nothing
NextIsolation ==
    \/ isAuthLoading /\ AuthStateChangedUser("u2")
    \/ AuthLoadedExisting(TRUE)
    \/ firebaseUser = Some("u2") /\ AuthStateChangedNull
    \/ handleSignInAttempt
    \/ signInPending /\ AuthStateChangedUser("u1")
    \/ AuthLoadedNew(TRUE)
    \/ RegenStart
    \/ RegenPlanReturn("planB")
    \/ RegenSaveSettled(TRUE)
    \/ chatSessions = <<>> /\ handleCreateNewChat
    \/ SendStart(<<"H", "i">>)
    \/ \E e \in {r \in RawErrors : r.class = "string"} :
           SendRequestFailed(handleGeminiError(e, "chat session"))
    \/ sendOp.pc = "requesting" /\ SendChunk([text |-> <<"x">>, grounding |-> UNDEFINED])
    \/ SendStreamEnd
    \/ SendSaveDone
    \/ SendErrSaveSettled(TRUE)
    \/ SaveSettled(TRUE)

SpecIsolation == Init /\ [][NextIsolation]_vars

\* the document of a returning user who logged the weight on each of the
\* seven days before day 1
LoggedDays == [i \in 1..ContextLogs |-> i - ContextLogs]

LoggedDoc ==
    [exists |-> TRUE,
     data |-> UserData(Some([name |-> "bob", weight |-> 70,
                             registrationDate |-> ISO(LoggedDays[1], 1000)]),
                       [i \in 1..ContextLogs |->
                           [date |-> LoggedDays[i], meals |-> <<>>,
                            totalNutrition |-> ZeroNutrition, weight |-> 70]],
                       Some("planA"),
                       [i \in 1..ContextLogs |->
                           [date |-> ISO(LoggedDays[i], 0), weight |-> 70]]
                       \o <<[date |-> ISO(LoggedDays[1], 1000), weight |-> 70]>>,
                       <<>>, NULL)]

InitLogged ==
    /\ today = 1
    /\ now = 1
    /\ isAuthLoading = TRUE
    /\ firebaseUser = NULL
    /\ isGuest = FALSE
    /\ isUserDataLoading = FALSE
    /\ guestDataRef = NULL
    /\ userProfile = NULL
    /\ dailyLogs = <<>>
    /\ workoutPlan = NULL
    /\ weightLog = <<>>
    /\ chatSessions = <<>>
    /\ activeChatSessionId = NULL
    /\ isGeneratingPlan = FALSE
    /\ dashboardError = NULL
    /\ isAiReplying = FALSE
    /\ remote = [u \in Users |-> IF u = "u2" THEN LoggedDoc ELSE NoDoc]
    /\ saves = <<>>
    /\ signInPending = FALSE
    /\ authCb = Idle
    /\ createOp = Idle
    /\ regenOp = Idle
    /\ sendOp = Idle
    /\ lastOp = [op |-> "init"]
    /\ InitBack

\* A returning user with a week of logs who logs meals for today, for a
\* logged day and for the day before the first logged one, and chats
NextContext ==
    \/ AuthStateChangedUser("u2")
    \/ AuthLoadedExisting(TRUE)
    \/ AdvanceDay
    \/ \E meal \in {m \in MealChoices : m.id = "m1"},
          date \in {LoggedDays[1] - 1, LoggedDays[ContextLogs]} \cup Days :
           addMeal(meal, date)
    \/ chatSessions = <<>> /\ handleCreateNewChat
    \/ SendStart(<<"H", "i">>)
    \/ \E e \in {r \in RawErrors : r.class = "string"} :
           SendRequestFailed(handleGeminiError(e, "chat session"))
    \/ SendStreamEnd
    \/ SendSaveDone
    \/ SendErrSaveSettled(TRUE)
    \/ SaveSettled(TRUE)

SpecContext == InitLogged /\ [][NextContext]_vars

\* A guest on the dashboard who opens and closes the meal logger and its
\* camera, logs meals from the meal logger and presses the back button
NextBack ==
    \/ AuthStateChangedNull
    \/ handleContinueAsGuest
    \/ \E profile \in NewProfiles : CreateStart(profile)
    \/ CreatePlanReturnGuest("planA")
    \/ /\ isOpen["mealLogger"] /\ ~isOpen["camera"]
       /\ \E meal \in MealChoices : addMeal(meal, today)
    \/ \E c \in Components : OpenComponent(c)
    \/ \E c \in Components : CloseComponent(c)
    \/ (\E c \in Components : isOpen[c]) /\ PressBack
    \/ HistoryBack

SpecBack == Init /\ [][NextBack]_vars

\* A guest whose profile setup receives every plan response
NextPlan ==
    \/ AuthStateChangedNull
    \/ handleContinueAsGuest
    \/ \E profile \in {p \in NewProfiles : p.weight = 72 /\ p.registrationDate.ms = 0} :
           CreateStart(profile)
    \/ \E response \in PlanResponses, images \in ImageResults :
           PlanResponseArrives(response, images)
    \/ CreatePlanFailed
    \/ /\ "response" \in DOMAIN createOp
       /\ CreatePlanReturnGuest(generateWorkoutPlan(createOp.response, createOp.images))

SpecPlan == Init /\ [][NextPlan]_vars

\* A guest who uses every mutation operation
NextGuest ==
    \/ AuthStateChangedNull
    \/ handleContinueAsGuest
    \/ \E profile \in {p \in NewProfiles : p.weight = 72 /\ p.registrationDate.ms = 0} :
           CreateStart(profile)
    \/ CreatePlanFailed
    \/ CreatePlanReturnGuest("planA")
    \/ \E meal \in {m \in MealChoices : m.id = "m1"} : addMeal(meal, 1)
    \/ addWeightEntry(70, 1)
    \/ RegenStart
    \/ RegenPlanReturn("planB")
    \/ \E msg \in {handleGeminiError(e, "workout plan generation") :
                       e \in {r \in RawErrors : r.class = "string"}} :
           RegenPlanFailed(msg)
    \/ handleUpdateWorkoutPlan("planC")
    \/ handleReset
    \/ handleCreateNewChat
    \/ \E chatId \in SessionIds(chatSessions) : handleDeleteChat(chatId)
    \/ \E sessionId \in SessionIds(chatSessions) : handleSwitchChat(sessionId)
    \/ SendStart(<<"H", "i">>)
    \/ sendOp.pc = "requesting" /\ SendChunk([text |-> <<"x">>, grounding |-> UNDEFINED])
    \/ SendStreamEnd
    \/ \E msg \in {handleGeminiError(e, "chat session") :
                       e \in {r \in RawErrors : r.class = "string"}} :
           SendRequestFailed(msg)

SpecGuest == Init /\ [][NextGuest]_vars

----------------------------------------------------------------------------
(* Claims *)

Range(seq) == {seq[i] : i \in 1..Len(seq)}
Occurrences(seq, e) == Cardinality({i \in 1..Len(seq) : seq[i] = e})

\* the sum of one nutrition field over the meals of a log
RECURSIVE FieldTotal(_, _, _)
FieldTotal(meals, field, n) ==
    IF n = 0 THEN 0
    ELSE meals[n].totalNutrition[field] + FieldTotal(meals, field, n - 1)

\* C9: every DailyLog's totalNutrition is the element-wise sum of the
\* totalNutrition of its meals (all zero for a log without meals), in every
\* state reached by addMeal and addWeightEntry calls.
C9_AggregateInvariant ==
    \A i \in 1..Len(dailyLogs) :
        \A field \in {"calories", "protein", "carbs", "fat"} :
            dailyLogs[i].totalNutrition[field]
                = FieldTotal(dailyLogs[i].meals, field, Len(dailyLogs[i].meals))

\* a log that addWeightEntry created and addMeal then extended twice
C9_Witness ==
    \E i \in 1..Len(dailyLogs) :
        /\ Len(dailyLogs[i].meals) >= 2
        /\ "weight" \in DOMAIN dailyLogs[i]

SortedByDate(wlog) ==
    \A i, j \in 1..Len(wlog) :
        i < j => GetTime(wlog[i].date) <= GetTime(wlog[j].date)

\* C10: after each addWeightEntry call the weight history is sorted ascending
\* by date and holds the entries it held before plus the new one.
C10_WeightOrdering ==
    [][lastOp'.op = "addWeightEntry" =>
        LET newEntry == [date |-> ISO(lastOp'.date, 0), weight |-> lastOp'.weight]
        IN /\ SortedByDate(weightLog')
           /\ Len(weightLog') = Len(weightLog) + 1
           /\ \A e \in Range(weightLog') \cup Range(weightLog) :
                  Occurrences(weightLog', e)
                      = Occurrences(weightLog, e) + (IF e = newEntry THEN 1 ELSE 0)
    ]_vars

\* an entry for an earlier date was added after one for a later date
C10_Witness ==
    /\ lastOp.op = "addWeightEntry"
    /\ \E i \in 1..Len(weightLog) :
           /\ weightLog[i] = [date |-> ISO(lastOp.date, 0), weight |-> lastOp.weight]
           /\ \E j \in (i + 1)..Len(weightLog) :
                  GetTime(weightLog[j].date) > GetTime(weightLog[i].date)


\* the history of session id in a session list, <<>> when it is not there
HistoryOf(sessions, id) ==
    IF FindSession(sessions, id) > 0
    THEN sessions[FindSession(sessions, id)].history
    ELSE <<>>

\* C4: when a stream completes normally the chatSessions handed to save-merge
\* is the in-memory collection of that moment, so the persisted history of the
\* active session ends with the sent user message and the model message
\* holding the whole response text and the latest citations.
C4_PersistsFullCollection ==
    lastOp.op = "sendStreamEnd" =>
        /\ lastOp.saved = chatSessions
        /\ FindSession(chatSessions, lastOp.active) > 0 =>
               LET h == HistoryOf(lastOp.saved, lastOp.active)
               IN /\ Len(h) >= 2
                  /\ h[Len(h) - 1].id = lastOp.userId
                  /\ h[Len(h) - 1].text = lastOp.message
                  /\ h[Len(h)].id = lastOp.modelId
                  /\ h[Len(h)].text = lastOp.finalResponse
                  /\ MsgGrounding(h[Len(h)]) = lastOp.latestGrounding

\* C5: after a failed send settles, the in-memory history of the active
\* session ends with the sent user message followed by the placeholder (same
\* id) whose text is the error description, and that collection is persisted.
C5_ErrorKeepsTurn ==
    (lastOp.op = "sendCatch" /\ FindSession(lastOp.before, lastOp.active) > 0) =>
        LET h == HistoryOf(chatSessions, lastOp.active)
        IN /\ Len(h) >= 2
           /\ h[Len(h) - 1].id = lastOp.userId
           /\ h[Len(h) - 1].text = lastOp.message
           /\ h[Len(h)].id = lastOp.modelId
           /\ h[Len(h)].text = <<"Error: ", lastOp.error>>
           /\ lastOp.saved = chatSessions

\* C6: while a send is in flight and until its stream has completed, the
\* session it was sent on (as long as it is in the list) holds the messages it
\* held before, then the user message, then one placeholder: the length does
\* not change and every delta lands in the message with the placeholder's id.
C6_StreamingIdentity ==
    (sendOp.pc \in {"requesting", "streaming", "saving"}
     /\ FindSession(chatSessions, sendOp.active) > 0) =>
        LET h == HistoryOf(chatSessions, sendOp.active)
            before == HistoryOf(sendOp.sessions, sendOp.active)
            n == Len(before)
        IN /\ Len(h) = n + 2
           /\ SubSeq(h, 1, n) = before
           /\ h[n + 1].id = sendOp.userId
           /\ h[n + 1].role = "user"
           /\ h[n + 1].text = sendOp.message
           /\ h[n + 2].id = sendOp.modelId
           /\ h[n + 2].role = "model"
           /\ h[n + 2].text = sendOp.finalResponse

\* the stream of a send delivered two chunks, the second one with citations,
\* and completed: the placeholder holds both deltas
C6_Witness ==
    /\ sendOp.pc = "saving"
    /\ sendOp.chunks >= 2
    /\ sendOp.latestGrounding # UNDEFINED
    /\ LET h == HistoryOf(chatSessions, sendOp.active)
       IN /\ Len(h) >= 2
          /\ Len(h[Len(h)].text) >= 2

\* the login in progress is for an identity whose stored document holds a
\* profile
LoginOfStoredProfile ==
    /\ authCb.pc \in {"loading", "migrating"}
    /\ HasProfile(DocData(remote[authCb.uid]))

\* C1: during a login for an identity whose stored document holds a non-null
\* profile, no save of the captured guest snapshot is issued and the stored
\* document does not change, whatever the outcome of the load.
C1_GuestNeverOverwrites ==
    [][LoginOfStoredProfile =>
        /\ \A i \in 1..Len(saves') : saves'[i].by # "auth"
        /\ remote'[authCb.uid] = remote[authCb.uid]
    ]_vars

\* two snapshots equal as stored values: a property holding undefined is a
\* property that is absent
SameStored(a, b) == removeUndefinedValues(a) = removeUndefinedValues(b)

\* C2: when the login of a guest whose snapshot was captured at the sign-in
\* attempt resolves for an identity without a stored document, the in-memory
\* snapshot is the captured snapshot and the stored document now exists and
\* holds it.
C2_GuestMigration ==
    (lastOp.op = "authResolved" /\ lastOp.branch = "migrated" /\ ~lastOp.existed) =>
        /\ lastOp.guest.userProfile # NULL
        /\ Snapshot = lastOp.guest
        /\ remote[lastOp.uid].exists
        /\ DOMAIN remote[lastOp.uid].data = Fields
        /\ SameStored(remote[lastOp.uid].data, lastOp.guest)

\* a guest with a logged meal and a chat turn whose answer has no citations
\* was migrated to an identity that had no document
C2_Witness ==
    /\ lastOp.op = "authResolved"
    /\ lastOp.branch = "migrated"
    /\ ~lastOp.existed
    /\ dailyLogs # <<>>
    /\ \E i \in 1..Len(chatSessions) :
           \E j \in 1..Len(chatSessions[i].history) :
               /\ "grounding" \in DOMAIN chatSessions[i].history[j]
               /\ chatSessions[i].history[j].grounding = UNDEFINED

\* C3: when the load of a login returns a document with a non-null profile
\* and a guest snapshot has been captured, the in-memory snapshot becomes the
\* stored one, no save is issued and the stored documents stay as they are.
C3_ExistingUserPrecedence ==
    [][(/\ authCb.pc = "loading"
        /\ authCb'.pc # "loading"
        /\ lastOp'.getDocOk
        /\ HasProfile(DocData(remote[authCb.uid]))
        /\ guestDataRef # NULL) =>
            /\ Snapshot' = remote[authCb.uid].data
            /\ saves' = saves
            /\ remote' = remote
    ]_vars

\* a returning user signed in from a guest session whose captured snapshot
\* differs from the stored one, and sees the stored one
C3_Witness ==
    /\ lastOp.op = "authResolved"
    /\ lastOp.branch = "existing"
    /\ guestDataRef # NULL
    /\ Snapshot = remote[lastOp.uid].data
    /\ Snapshot # Val(guestDataRef)
    /\ saves = <<>>

\* the snapshot after the save at the head of the queue settled; the saves
\* nobody awaits and those of a plan regeneration and of the catch block of
\* a send are followed by no write to the snapshot
SnapshotAfterSettle(ok) ==
    CASE saves[1].by = "create" -> CreateSettleSnapshot(ok)
      [] saves[1].by = "send" ->
             [Snapshot EXCEPT !.chatSessions = SendSettleSessions(ok)]
      [] OTHER -> Snapshot

\* C7: for the save of every mutation operation, the in-memory snapshot once
\* the save has settled is the same whether it resolved or rejected.
C7_SaveOutcomeIndependent ==
    (saves # <<>> /\ saves[1].by # "auth") =>
        SnapshotAfterSettle(TRUE) = SnapshotAfterSettle(FALSE)

\* C8: a save that resolves writes exactly the top-level fields of its
\* payload into the document of its user and leaves the other stored fields
\* and the other documents as they were; no other step changes a document.
C8_MergeKeepsOtherFields ==
    [][IF "settle" \in DOMAIN lastOp' /\ lastOp'.settle.ok
       THEN LET u == lastOp'.settle.uid
                payload == lastOp'.settle.data
                before == remote[u].data
                after == remote'[u].data
            IN /\ remote'[u].exists
               /\ DOMAIN after = (DOMAIN before) \cup (DOMAIN payload)
               /\ \A f \in DOMAIN payload : after[f] = payload[f]
               /\ \A f \in (DOMAIN before) \ (DOMAIN payload) : after[f] = before[f]
               /\ \A v \in Users \ {u} : remote'[v] = remote[v]
       ELSE remote' = remote
    ]_vars

\* a save of some fields resolved on a document whose other fields hold a
\* profile and a plan, after an earlier save had written other fields
C8_Witness ==
    /\ "settle" \in DOMAIN lastOp
    /\ lastOp.settle.ok
    /\ (DOMAIN lastOp.settle.data) \cap {"userProfile", "workoutPlan"} = {}
    /\ DOMAIN remote[lastOp.settle.uid].data = Fields
    /\ remote[lastOp.settle.uid].data.userProfile # NULL
    /\ remote[lastOp.settle.uid].data.workoutPlan # NULL
    /\ remote[lastOp.settle.uid].data.chatSessions # <<>>
    /\ remote[lastOp.settle.uid].data.dailyLogs # <<>>

\* C11: an addWeightEntry(w, D) call with a profile present sets the weight
\* of the profile to w when D is the current date and leaves it when D is a
\* past date; no other field of the profile changes.
C11_CurrentWeightRule ==
    [][(lastOp'.op = "addWeightEntry" /\ userProfile # NULL) =>
        /\ userProfile' # NULL
        /\ DOMAIN Val(userProfile') = DOMAIN Val(userProfile)
        /\ Val(userProfile').weight =
               IF lastOp'.date = today THEN lastOp'.weight
               ELSE Val(userProfile).weight
        /\ \A f \in (DOMAIN Val(userProfile)) \ {"weight"} :
               Val(userProfile')[f] = Val(userProfile)[f]
    ]_vars

\* an entry for a past date was added with a weight that is not the weight
\* of the profile
C11_Witness ==
    /\ lastOp.op = "addWeightEntry"
    /\ lastOp.date < today
    /\ userProfile # NULL
    /\ lastOp.weight # Val(userProfile).weight

\* the fields a reset clears, of a snapshot or of a stored document
Cleared(d) ==
    /\ d.userProfile = NULL
    /\ d.workoutPlan = NULL
    /\ d.dailyLogs = <<>>
    /\ d.weightLog = <<>>
    /\ d.chatSessions = <<>>

\* C12: from a reset until the next profile creation, that is while a
\* signed-in user has no profile in memory, respectively while the stored
\* document holds a null profile, profile and plan are null and the logs,
\* the weight history and the chat sessions are empty, in memory and in the
\* stored document, also when a regeneration or a send started before the
\* reset settles after it.
C12_ResetCompleteness ==
    /\ (firebaseUser # NULL /\ ~isUserDataLoading /\ userProfile = NULL)
           => Cleared(Snapshot)
    /\ \A u \in Users :
           (remote[u].exists /\ DOMAIN remote[u].data = Fields
            /\ remote[u].data.userProfile = NULL) => Cleared(remote[u].data)

\* C13: while nobody is signed in and guest mode has not been chosen, the
\* in-memory snapshot is empty: a sign-out clears it and it stays cleared
\* until the next guest entry or authentication, also when a regeneration
\* or a chat stream that was in flight at the sign-out settles afterwards.
C13_SignOutClears ==
    (firebaseUser = NULL /\ ~isGuest) => Snapshot = EmptyData

C15_RegenFailureKeepsPlan ==
    [][lastOp'.op = "regenFailed" =>
        /\ dashboardError' # NULL
        /\ ~isGeneratingPlan'
        /\ workoutPlan' = regenOp.before
    ]_vars

\* the fixed messages of the failure classification for one context: the
\* five return statements of handleGeminiError outside meal analysis
GeminiMessages(context) ==
    { <<"The AI model did not return a response.">>,
      <<"Your Gemini API key is not configured.">>,
      <<"The request to the AI service was invalid during ", context, ".">>,
      <<"Your Gemini API key is invalid or lacks the necessary permissions.">>,
      <<"An unexpected error occurred with the Gemini API during ", context, ".">> }

\* C16: every error text shown for an AI operation is one of the fixed
\* messages of the failure classification: the dashboard error banner, and
\* the text of a chat message that reports an error.
C16_NoRawErrors ==
    /\ dashboardError # NULL =>
           Val(dashboardError) \in GeminiMessages("workout plan generation")
    /\ \A i \in 1..Len(chatSessions) :
           \A j \in 1..Len(chatSessions[i].history) :
               LET text == chatSessions[i].history[j].text
               IN (Len(text) = 2 /\ text[1] = "Error: ") =>
                      text[2] \in GeminiMessages("chat session")

\* the state is GuestActive: guest mode chosen, nobody signed in
GuestActive == isGuest /\ firebaseUser = NULL

TitleOf(sessions, id) == sessions[FindSession(sessions, id)].title

\* C18: the send of message m on a session with empty history sets the
\* session title to m when m has at most 30 characters and to the first 30
\* characters of m followed by the ellipsis marker when m is longer; no step
\* of a send on a session whose history is not empty changes the title.
C18_TitleDerivation ==
    [][/\ lastOp'.op = "sendStart" =>
            LET id == lastOp'.active
                m == lastOp'.message
            IN TitleOf(chatSessions', id) =
                  IF HistoryOf(chatSessions, id) = <<>>
                  THEN IF Len(m) <= 30 THEN m
                       ELSE SubSeq(m, 1, 30) \o <<"...">>
                  ELSE TitleOf(chatSessions, id)
       /\ ( /\ lastOp'.op \in {"sendChunk", "sendStreamEnd", "sendDone",
                                "sendCatch", "sendErrDone"}
            /\ sendOp # Idle
            /\ HistoryOf(sendOp.sessions, sendOp.active) # <<>>
            /\ sendOp.active \in SessionIds(chatSessions')
          ) => TitleOf(chatSessions', sendOp.active)
                  = TitleOf(sendOp.sessions, sendOp.active)
    ]_vars

\* a message of 31 characters was sent on a new session, whose title is its
\* first 30 characters and the ellipsis
C18_Witness ==
    /\ lastOp.op = "sendStart"
    /\ Len(lastOp.message) = 31
    /\ lastOp.active # StoredSession.id
    /\ Len(TitleOf(chatSessions, lastOp.active)) = 31
    /\ TitleOf(chatSessions, lastOp.active)[31] = "..."
    /\ TitleOf(chatSessions, StoredSession.id) = <<"Old">>

\* the workouts of a plan, in schedule order
WorkoutsOf(plan) ==
    {<<i, j, k>> \in (1..2) \X (1..2) \X (1..2) :
        /\ i <= Len(plan.weeklySchedule)
        /\ j <= Len(plan.weeklySchedule[i].sessions)
        /\ k <= Len(plan.weeklySchedule[i].sessions[j].workouts)}

WorkoutAt(plan, t) == plan.weeklySchedule[t[1]].sessions[t[2]].workouts[t[3]]

\* the positions of the entries of details that are not named Sets or Reps
OtherPositions(details) ==
    {i \in 1..Len(details) : details[i].name \notin {"Sets", "Reps"}}

\* promoted is the workout original with sets and reps promoted
Promoted(original, promoted) ==
    LET d == original.details
        others == OtherPositions(d)
        NamedValue(name, v) ==
            IF \A i \in 1..Len(d) : d[i].name # name THEN v = "N/A"
            ELSE \E i \in 1..Len(d) :
                    /\ d[i].name = name
                    /\ \A j \in 1..(i - 1) : d[j].name # name
                    /\ v = d[i].value
    IN /\ NamedValue("Sets", promoted.sets)
       /\ NamedValue("Reps", promoted.reps)
       /\ Len(promoted.details) = Cardinality(others)
       /\ \A i \in others :
             promoted.details[Cardinality({j \in others : j <= i})] = d[i]
       /\ promoted.exercise = original.exercise

\* C19: for every workout entry of a generated plan, sets is the value of the
\* details entry named "Sets" (the first one when there are several) and
\* reps that of the entry named "Reps", "N/A" when the entry is missing, and
\* the residual details list is the original list without the entries named
\* "Sets" or "Reps", the other entries in their original order.
C19_FieldPromotion ==
    [][(lastOp'.op = "createDone" /\ "response" \in DOMAIN createOp) =>
        LET plan == Val(workoutPlan')
        IN /\ WorkoutsOf(plan) = WorkoutsOf(createOp.response)
           /\ \A t \in WorkoutsOf(plan) :
                 Promoted(WorkoutAt(createOp.response, t), WorkoutAt(plan, t))
    ]_vars

\* a plan whose first workout had Sets, Weight and no Reps: sets promoted,
\* reps "N/A", Weight left in the details
C19_Witness ==
    /\ lastOp.op = "createDone"
    /\ workoutPlan # NULL
    /\ LET w == WorkoutAt(Val(workoutPlan), <<1, 1, 1>>)
       IN /\ w.sets = "3"
          /\ w.reps = "N/A"
          /\ w.details = <<[name |-> "Weight", value |-> "10"]>>
    /\ WorkoutAt(Val(workoutPlan), <<1, 1, 2>>).details = <<>>
    /\ WorkoutAt(Val(workoutPlan), <<1, 1, 2>>).sets = "3"

\* the sessions of a list other than session id
OtherSessionIds(sessions, id) == SessionIds(sessions) \ {id}

\* C20: the sessions other than S that the user created or deleted while a
\* stream was in flight on S are kept as they are when the stream settles:
\* the steps that end the send neither restore nor drop another session in
\* the in-memory list, and the list they write to the remote store holds
\* the same other sessions as the in-memory list.
C20_ConcurrentMutationsKept ==
    [][(lastOp'.op \in {"sendStreamEnd", "sendCatch"} /\ sendOp # Idle) =>
        /\ OtherSessionIds(chatSessions', sendOp.active)
              = OtherSessionIds(chatSessions, sendOp.active)
        /\ OtherSessionIds(lastOp'.saved, sendOp.active)
              = OtherSessionIds(chatSessions, sendOp.active)
    ]_vars

\* C21: the conversation handed to the streaming chat fetcher for a turn is
\* the messages the session had before the send, in order, followed by the
\* new user message once; the empty placeholder is not in it.
C21_ConversationSent ==
    [][lastOp'.op = "sendStart" =>
        LET prior == HistoryOf(chatSessions, lastOp'.active)
        IN sendOp'.contents =
              [i \in 1..Len(prior) |-> [role |-> prior[i].role, text |-> prior[i].text]]
              \o <<[role |-> "user", text |-> lastOp'.message]>>
    ]_vars

\* C22: no two save-merge calls for the same top-level field of the same
\* identity are outstanding at the same time.
C22_NoConflictingSaves ==
    \A i, j \in 1..Len(saves) :
        (i < j /\ saves[i].uid = saves[j].uid)
            => (DOMAIN saves[i].data) \cap (DOMAIN saves[j].data) = {}

\* the positions of the weight entries dated on the current calendar day
TodaysEntries == {i \in 1..Len(weightLog) : weightLog[i].date.day = today}

\* C23: when the weight history holds entries dated on the current calendar
\* day, the profile weight is the weight of the last of them in the
\* date-sorted history.
C23_WeightConsistent ==
    (userProfile # NULL /\ TodaysEntries # {}) =>
        Val(userProfile).weight =
            weightLog[CHOOSE i \in TodaysEntries : \A j \in TodaysEntries : j <= i].weight

\* the message of history with identifier id
MessageOf(history, id) ==
    history[CHOOSE j \in 1..Len(history) : history[j].id = id]

\* C24: each chunk appends its text delta to the accumulated text and the
\* placeholder shows the accumulated text; the placeholder's citations are
\* those of the chunk when it carries any and are left as they were
\* otherwise; every other message and every other session is untouched.
C24_DeltasInOrder ==
    [][/\ lastOp'.op = "sendStart" =>
            /\ sendOp'.finalResponse = <<>>
            /\ MessageOf(HistoryOf(chatSessions', sendOp'.active),
                         sendOp'.modelId).text = <<>>
       /\ lastOp'.op = "sendChunk" =>
            LET chunk == lastOp'.chunk
                old == HistoryOf(chatSessions, sendOp.active)
                new == HistoryOf(chatSessions', sendOp.active)
            IN /\ sendOp'.finalResponse = sendOp.finalResponse \o chunk.text
               /\ sendOp'.chunks = sendOp.chunks + 1
               /\ Len(chatSessions') = Len(chatSessions)
               /\ \A i \in 1..Len(chatSessions) :
                     chatSessions[i].id # sendOp.active
                         => chatSessions'[i] = chatSessions[i]
               /\ TitleOf(chatSessions', sendOp.active)
                     = TitleOf(chatSessions, sendOp.active)
               /\ Len(new) = Len(old)
               /\ \A j \in 1..Len(old) :
                     IF old[j].id # sendOp.modelId THEN new[j] = old[j]
                     ELSE /\ new[j].text = sendOp'.finalResponse
                          /\ new[j].role = old[j].role
                          /\ new[j].id = old[j].id
                          /\ MsgGrounding(new[j]) =
                                IF chunk.grounding # UNDEFINED THEN chunk.grounding
                                ELSE MsgGrounding(old[j])
    ]_vars

\* two chunks arrived, each with its own citations, on a new session while
\* the stored session is in the list: the text is both deltas in order and
\* the citations are those of the second chunk
C24_Witness ==
    /\ lastOp.op = "sendChunk"
    /\ sendOp.chunks = 2
    /\ sendOp.active # StoredSession.id
    /\ StoredSession \in {chatSessions[i] : i \in 1..Len(chatSessions)}
    /\ LET msg == MessageOf(HistoryOf(chatSessions, sendOp.active), sendOp.modelId)
       IN /\ msg.text = <<"y", "y">>
          /\ msg.grounding = Some(<<[uri |-> "u2", title |-> "t2"]>>)
          /\ sendOp.latestGrounding = msg.grounding

\* C25: the AI-is-replying flag is true exactly while a send is in flight;
\* no send starts while it is true; once the stream of a send has
\* terminated the flag is eventually false, whether the saves succeed or
\* fail.
C25_ReplyingFlag ==
    /\ [](isAiReplying <=> sendOp # Idle)
    /\ [][lastOp'.op = "sendStart" => (~isAiReplying /\ isAiReplying')]_vars
    /\ [][(sendOp # Idle /\ sendOp' = Idle) => ~isAiReplying']_vars
    /\ ((sendOp.pc \in {"saving", "errsaving"}) ~> ~isAiReplying)

\* the request failed and the save of the error turn was rejected as well:
\* the flag is cleared
C25_Witness ==
    /\ lastOp.op = "sendErrDone"
    /\ ~lastOp.settle.ok
    /\ sendOp = Idle
    /\ ~isAiReplying

\* C26: the user u1, who never stored or created anything, sees nothing of
\* what u2 created: once u1's data is loaded the in-memory snapshot is
\* empty, and no document is ever written for u1.
C26_IdentitiesIsolated ==
    /\ (firebaseUser = Some("u1") /\ authCb = Idle) => Snapshot = EmptyData
    /\ remote["u1"] = NoDoc
    /\ \A i \in 1..Len(saves) : saves[i].uid # "u1"

\* C27: activeChatSessionId is null or the id of a session of chatSessions.
C27_ActiveSessionExists ==
    activeChatSessionId = NULL
        \/ Val(activeChatSessionId) \in SessionIds(chatSessions)

\* C28: whenever the user-data-loading flag is set it is eventually cleared,
\* whatever the outcomes of the load and of the migration save.
C28_ResolutionFinishes == isUserDataLoading ~> ~isUserDataLoading

\* the n latest of a set of dates
LatestDates(dates, n) ==
    {d \in dates : Cardinality({e \in dates : e > d}) < n}

\* C29: the daily logs put into the chat context are the 7 logs with the
\* latest calendar dates, and the weight entries the 10 entries with the
\* latest dates.
C29_ContextIsRecent ==
    [][lastOp'.op = "sendStart" =>
        /\ {sendOp'.context.recentLogs[i].date :
                i \in 1..Len(sendOp'.context.recentLogs)}
             = LatestDates({dailyLogs[i].date : i \in 1..Len(dailyLogs)}, 7)
        /\ Len(sendOp'.context.recentLogs)
             = (IF Len(dailyLogs) > 7 THEN 7 ELSE Len(dailyLogs))
        /\ Len(sendOp'.context.weightHistory)
             = (IF Len(weightLog) > 10 THEN 10 ELSE Len(weightLog))
        /\ \A i \in 1..Len(sendOp'.context.weightHistory) :
              Cardinality({j \in 1..Len(weightLog) :
                              GetTime(weightLog[j].date)
                                  > DayMs * (sendOp'.context.weightHistory[i].date + 1)}) < 10
    ]_vars

\* C30: one press of the back button calls onClose of exactly one open
\* component; the history.back() of a component closed through its own UI
\* calls no onClose of another component; and once every component is
\* closed and no traversal is pending the history is at the depth it had
\* before the first was opened.
C30_BackHandlerProtocol ==
    /\ [][(lastOp'.op = "pressBack" /\ popstateListeners # {})
             => Cardinality(lastOp'.called) = 1]_vars
    /\ [][lastOp'.op = "historyBack" => lastOp'.called = {}]_vars
    /\ []((pendingTraversals = 0 /\ \A c \in Components : ~isOpen[c])
             => historyIndex = BaseIndex)

====
